---- MODULE Spec2Model ----
(***************************************************************************)
(* rspamd HTML-to-text normaliser (src/libserver/html.c): entity decoder,  *)
(* tag-content parser, document parser / tree builder, structural          *)
(* extractors and the displayed-URL phishing detector.                     *)
(*                                                                         *)
(* Bytes are one-character strings ("<", "a", ...); a byte above 0x7f is   *)
(* the string "x" followed by its two hex digits ("xc2").  Buffers are     *)
(* sequences of bytes; C offsets are 0-based, so the byte at C offset i of *)
(* a buffer s is s[i + 1].                                                 *)
(***************************************************************************)
EXTENDS Integers, Sequences, FiniteSets, TLC

VARIABLES
    dec,        \* rspamd_html_decode_entitles_inplace: locals and buffer
    doc,        \* rspamd_html_process_part_full: locals, input and dest
    hc,         \* struct html_content
    tags,       \* struct html_tag objects allocated from the pool
    nodes,      \* GNode objects of the tag tree
    urls,       \* the urls / emails hash tables and their rspamd_url records
    ph,         \* rspamd_html_url_is_phished called on its own
    msg,        \* message.c: the text parts of a message and its pool variables
    lib,        \* the static tables of html.c and their one-shot latches
    trace       \* observations of the run (bookkeeping for the properties)

vars == <<dec, doc, hc, tags, nodes, urls, ph, msg, lib, trace>>

----------------------------------------------------------------------------
(* Bytes and the character predicates of glib *)

AsciiTab ==
  <<" ","!","\"","#","$","%","&","'","(",")","*","+",",","-",".","/",
    "0","1","2","3","4","5","6","7","8","9",":",";","<","=",">","?","@",
    "A","B","C","D","E","F","G","H","I","J","K","L","M","N","O","P","Q",
    "R","S","T","U","V","W","X","Y","Z","[","\\","]","^","_","x60",
    "a","b","c","d","e","f","g","h","i","j","k","l","m","n","o","p","q",
    "r","s","t","u","v","w","x","y","z","{","|","}","~">>

HexTab ==
  <<"0","1","2","3","4","5","6","7","8","9","a","b","c","d","e","f">>

OrdTab ==
  [c \in {AsciiTab[i] : i \in 1..Len(AsciiTab)} \cup {"\t", "\n", "\r", "\f"} |->
      IF c = "\t" THEN 9
      ELSE IF c = "\n" THEN 10
      ELSE IF c = "\f" THEN 12
      ELSE IF c = "\r" THEN 13
      ELSE 31 + (CHOOSE i \in 1..Len(AsciiTab) : AsciiTab[i] = c)]

\* numeric value of a byte; the grave accent is written "x60", and every
\* other byte written as "xNN" is >= 0x80
Ord(c) == IF c \in DOMAIN OrdTab THEN OrdTab[c] ELSE 128

Chr(v) ==
  IF v \in 32..126 THEN AsciiTab[v - 31]
  ELSE IF v = 9 THEN "\t"
  ELSE IF v = 10 THEN "\n"
  ELSE IF v = 12 THEN "\f"
  ELSE IF v = 13 THEN "\r"
  ELSE "x" \o HexTab[((v \div 16) % 16) + 1] \o HexTab[(v % 16) + 1]

g_ascii_isspace(c) == c \in {" ", "\t", "\n", "\r", "\f"}

g_ascii_isalpha(c) == Ord(c) \in 65..90 \cup 97..122

g_ascii_isdigit(c) == Ord(c) \in 48..57

g_ascii_isgraph(c) == Ord(c) \in 33..126

g_ascii_tolower(c) == IF Ord(c) \in 65..90 THEN Chr(Ord(c) + 32) ELSE c

LowerSeq(s) == [i \in 1..Len(s) |-> g_ascii_tolower(s[i])]

\* g_ascii_strcasecmp (a, b) == 0 on two NUL-terminated strings
g_ascii_strcasecmp_eq(a, b) == LowerSeq(a) = LowerSeq(b)

\* g_ascii_strncasecmp (p, lit, len) == 0 where p holds exactly len bytes
g_ascii_strncasecmp_eq(p, lit, len) ==
  /\ len <= Len(p)
  /\ \A i \in 1..len :
        IF i <= Len(lit)
        THEN g_ascii_tolower(p[i]) = g_ascii_tolower(lit[i])
        ELSE FALSE

Max(a, b) == IF a >= b THEN a ELSE b

Min(a, b) == IF a <= b THEN a ELSE b

\* the bytes of s at C offsets from .. to - 1
Span(s, from, to) == SubSeq(s, from + 1, to)

\* memcpy (s + pos, bs, Len(bs)); a write past the end of the buffer lands
\* in the memory that follows it, which is kept here as a longer sequence
WriteAt(s, pos, bs) ==
  [i \in 1..Max(Len(s), pos + Len(bs)) |->
      IF i > pos /\ i <= pos + Len(bs) THEN bs[i - pos] ELSE s[i]]

----------------------------------------------------------------------------
(* Static tables *)

entities_defs ==
  <<
   [name |-> <<"q","u","o","t">>, code |-> 34, has_rep |-> TRUE, replacement |-> <<"\"">>],
   [name |-> <<"a","m","p">>, code |-> 38, has_rep |-> TRUE, replacement |-> <<"&">>],
   [name |-> <<"a","p","o","s">>, code |-> 39, has_rep |-> TRUE, replacement |-> <<"'">>],
   [name |-> <<"l","t">>, code |-> 60, has_rep |-> TRUE, replacement |-> <<"<">>],
   [name |-> <<"g","t">>, code |-> 62, has_rep |-> TRUE, replacement |-> <<">">>],
   [name |-> <<"n","b","s","p">>, code |-> 160, has_rep |-> TRUE, replacement |-> <<" ">>],
   [name |-> <<"i","e","x","c","l">>, code |-> 161, has_rep |-> TRUE, replacement |-> <<"!">>],
   [name |-> <<"c","e","n","t">>, code |-> 162, has_rep |-> TRUE, replacement |-> <<"c","e","n","t">>],
   [name |-> <<"p","o","u","n","d">>, code |-> 163, has_rep |-> TRUE, replacement |-> <<"p","o","u","n","d">>],
   [name |-> <<"c","u","r","r","e","n">>, code |-> 164, has_rep |-> TRUE, replacement |-> <<"c","u","r","r","e","n","t">>],
   [name |-> <<"y","e","n">>, code |-> 165, has_rep |-> TRUE, replacement |-> <<"y","e","n">>],
   [name |-> <<"b","r","v","b","a","r">>, code |-> 166, has_rep |-> FALSE, replacement |-> <<>>],
   [name |-> <<"s","e","c","t">>, code |-> 167, has_rep |-> FALSE, replacement |-> <<>>],
   [name |-> <<"u","m","l">>, code |-> 168, has_rep |-> TRUE, replacement |-> <<"u","m","l">>],
   [name |-> <<"c","o","p","y">>, code |-> 169, has_rep |-> TRUE, replacement |-> <<"c">>],
   [name |-> <<"o","r","d","f">>, code |-> 170, has_rep |-> FALSE, replacement |-> <<>>],
   [name |-> <<"l","a","q","u","o">>, code |-> 171, has_rep |-> TRUE, replacement |-> <<"\"">>],
   [name |-> <<"n","o","t">>, code |-> 172, has_rep |-> TRUE, replacement |-> <<"!">>],
   [name |-> <<"s","h","y">>, code |-> 173, has_rep |-> FALSE, replacement |-> <<>>],
   [name |-> <<"r","e","g">>, code |-> 174, has_rep |-> TRUE, replacement |-> <<"r">>],
   [name |-> <<"m","a","c","r">>, code |-> 175, has_rep |-> FALSE, replacement |-> <<>>],
   [name |-> <<"d","e","g">>, code |-> 176, has_rep |-> TRUE, replacement |-> <<"d","e","g">>],
   [name |-> <<"p","l","u","s","m","n">>, code |-> 177, has_rep |-> TRUE, replacement |-> <<"+","-">>],
   [name |-> <<"s","u","p","2">>, code |-> 178, has_rep |-> TRUE, replacement |-> <<"2">>],
   [name |-> <<"s","u","p","3">>, code |-> 179, has_rep |-> TRUE, replacement |-> <<"3">>],
   [name |-> <<"a","c","u","t","e">>, code |-> 180, has_rep |-> FALSE, replacement |-> <<>>],
   [name |-> <<"m","i","c","r","o">>, code |-> 181, has_rep |-> FALSE, replacement |-> <<>>],
   [name |-> <<"p","a","r","a">>, code |-> 182, has_rep |-> FALSE, replacement |-> <<>>],
   [name |-> <<"m","i","d","d","o","t">>, code |-> 183, has_rep |-> TRUE, replacement |-> <<".">>],
   [name |-> <<"c","e","d","i","l">>, code |-> 184, has_rep |-> FALSE, replacement |-> <<>>],
   [name |-> <<"s","u","p","1">>, code |-> 185, has_rep |-> TRUE, replacement |-> <<"1">>],
   [name |-> <<"o","r","d","m">>, code |-> 186, has_rep |-> FALSE, replacement |-> <<>>],
   [name |-> <<"r","a","q","u","o">>, code |-> 187, has_rep |-> TRUE, replacement |-> <<"\"">>],
   [name |-> <<"f","r","a","c","1","4">>, code |-> 188, has_rep |-> TRUE, replacement |-> <<"1","/","4">>],
   [name |-> <<"f","r","a","c","1","2">>, code |-> 189, has_rep |-> TRUE, replacement |-> <<"1","/","2">>],
   [name |-> <<"f","r","a","c","3","4">>, code |-> 190, has_rep |-> TRUE, replacement |-> <<"3","/","4">>],
   [name |-> <<"i","q","u","e","s","t">>, code |-> 191, has_rep |-> TRUE, replacement |-> <<"i">>],
   [name |-> <<"A","g","r","a","v","e">>, code |-> 192, has_rep |-> TRUE, replacement |-> <<"a">>],
   [name |-> <<"A","a","c","u","t","e">>, code |-> 193, has_rep |-> TRUE, replacement |-> <<"a">>],
   [name |-> <<"A","c","i","r","c">>, code |-> 194, has_rep |-> TRUE, replacement |-> <<"a">>],
   [name |-> <<"A","t","i","l","d","e">>, code |-> 195, has_rep |-> TRUE, replacement |-> <<"a">>],
   [name |-> <<"A","u","m","l">>, code |-> 196, has_rep |-> TRUE, replacement |-> <<"a">>],
   [name |-> <<"A","r","i","n","g">>, code |-> 197, has_rep |-> TRUE, replacement |-> <<"a">>],
   [name |-> <<"A","E","l","i","g">>, code |-> 198, has_rep |-> TRUE, replacement |-> <<"a">>],
   [name |-> <<"C","c","e","d","i","l">>, code |-> 199, has_rep |-> TRUE, replacement |-> <<"c">>],
   [name |-> <<"E","g","r","a","v","e">>, code |-> 200, has_rep |-> TRUE, replacement |-> <<"e">>],
   [name |-> <<"E","a","c","u","t","e">>, code |-> 201, has_rep |-> TRUE, replacement |-> <<"e">>],
   [name |-> <<"E","c","i","r","c">>, code |-> 202, has_rep |-> TRUE, replacement |-> <<"e">>],
   [name |-> <<"E","u","m","l">>, code |-> 203, has_rep |-> TRUE, replacement |-> <<"e">>],
   [name |-> <<"I","g","r","a","v","e">>, code |-> 204, has_rep |-> TRUE, replacement |-> <<"i">>],
   [name |-> <<"I","a","c","u","t","e">>, code |-> 205, has_rep |-> TRUE, replacement |-> <<"i">>],
   [name |-> <<"I","c","i","r","c">>, code |-> 206, has_rep |-> TRUE, replacement |-> <<"i">>],
   [name |-> <<"I","u","m","l">>, code |-> 207, has_rep |-> TRUE, replacement |-> <<"i">>],
   [name |-> <<"E","T","H">>, code |-> 208, has_rep |-> TRUE, replacement |-> <<"e">>],
   [name |-> <<"N","t","i","l","d","e">>, code |-> 209, has_rep |-> TRUE, replacement |-> <<"n">>],
   [name |-> <<"O","g","r","a","v","e">>, code |-> 210, has_rep |-> TRUE, replacement |-> <<"o">>],
   [name |-> <<"O","a","c","u","t","e">>, code |-> 211, has_rep |-> TRUE, replacement |-> <<"o">>],
   [name |-> <<"O","c","i","r","c">>, code |-> 212, has_rep |-> TRUE, replacement |-> <<"o">>],
   [name |-> <<"O","t","i","l","d","e">>, code |-> 213, has_rep |-> TRUE, replacement |-> <<"o">>],
   [name |-> <<"O","u","m","l">>, code |-> 214, has_rep |-> TRUE, replacement |-> <<"o">>],
   [name |-> <<"t","i","m","e","s">>, code |-> 215, has_rep |-> TRUE, replacement |-> <<"t">>],
   [name |-> <<"O","s","l","a","s","h">>, code |-> 216, has_rep |-> TRUE, replacement |-> <<"o">>],
   [name |-> <<"U","g","r","a","v","e">>, code |-> 217, has_rep |-> TRUE, replacement |-> <<"u">>],
   [name |-> <<"U","a","c","u","t","e">>, code |-> 218, has_rep |-> TRUE, replacement |-> <<"u">>],
   [name |-> <<"U","c","i","r","c">>, code |-> 219, has_rep |-> TRUE, replacement |-> <<"u">>],
   [name |-> <<"U","u","m","l">>, code |-> 220, has_rep |-> TRUE, replacement |-> <<"u">>],
   [name |-> <<"Y","a","c","u","t","e">>, code |-> 221, has_rep |-> TRUE, replacement |-> <<"y">>],
   [name |-> <<"T","H","O","R","N">>, code |-> 222, has_rep |-> TRUE, replacement |-> <<"t">>],
   [name |-> <<"s","z","l","i","g">>, code |-> 223, has_rep |-> TRUE, replacement |-> <<"s">>],
   [name |-> <<"a","g","r","a","v","e">>, code |-> 224, has_rep |-> TRUE, replacement |-> <<"a">>],
   [name |-> <<"a","a","c","u","t","e">>, code |-> 225, has_rep |-> TRUE, replacement |-> <<"a">>],
   [name |-> <<"a","c","i","r","c">>, code |-> 226, has_rep |-> TRUE, replacement |-> <<"a">>],
   [name |-> <<"a","t","i","l","d","e">>, code |-> 227, has_rep |-> TRUE, replacement |-> <<"a">>],
   [name |-> <<"a","u","m","l">>, code |-> 228, has_rep |-> TRUE, replacement |-> <<"a">>],
   [name |-> <<"a","r","i","n","g">>, code |-> 229, has_rep |-> TRUE, replacement |-> <<"a">>],
   [name |-> <<"a","e","l","i","g">>, code |-> 230, has_rep |-> TRUE, replacement |-> <<"a">>],
   [name |-> <<"c","c","e","d","i","l">>, code |-> 231, has_rep |-> TRUE, replacement |-> <<"c">>],
   [name |-> <<"e","g","r","a","v","e">>, code |-> 232, has_rep |-> TRUE, replacement |-> <<"e">>],
   [name |-> <<"e","a","c","u","t","e">>, code |-> 233, has_rep |-> TRUE, replacement |-> <<"e">>],
   [name |-> <<"e","c","i","r","c">>, code |-> 234, has_rep |-> TRUE, replacement |-> <<"e">>],
   [name |-> <<"e","u","m","l">>, code |-> 235, has_rep |-> TRUE, replacement |-> <<"e">>],
   [name |-> <<"i","g","r","a","v","e">>, code |-> 236, has_rep |-> TRUE, replacement |-> <<"e">>],
   [name |-> <<"i","a","c","u","t","e">>, code |-> 237, has_rep |-> TRUE, replacement |-> <<"e">>],
   [name |-> <<"i","c","i","r","c">>, code |-> 238, has_rep |-> TRUE, replacement |-> <<"e">>],
   [name |-> <<"i","u","m","l">>, code |-> 239, has_rep |-> TRUE, replacement |-> <<"e">>],
   [name |-> <<"e","t","h">>, code |-> 240, has_rep |-> TRUE, replacement |-> <<"e">>],
   [name |-> <<"n","t","i","l","d","e">>, code |-> 241, has_rep |-> TRUE, replacement |-> <<"n">>],
   [name |-> <<"o","g","r","a","v","e">>, code |-> 242, has_rep |-> TRUE, replacement |-> <<"o">>],
   [name |-> <<"o","a","c","u","t","e">>, code |-> 243, has_rep |-> TRUE, replacement |-> <<"o">>],
   [name |-> <<"o","c","i","r","c">>, code |-> 244, has_rep |-> TRUE, replacement |-> <<"o">>],
   [name |-> <<"o","t","i","l","d","e">>, code |-> 245, has_rep |-> TRUE, replacement |-> <<"o">>],
   [name |-> <<"o","u","m","l">>, code |-> 246, has_rep |-> TRUE, replacement |-> <<"o">>],
   [name |-> <<"d","i","v","i","d","e">>, code |-> 247, has_rep |-> TRUE, replacement |-> <<"/">>],
   [name |-> <<"o","s","l","a","s","h">>, code |-> 248, has_rep |-> TRUE, replacement |-> <<"/">>],
   [name |-> <<"u","g","r","a","v","e">>, code |-> 249, has_rep |-> TRUE, replacement |-> <<"u">>],
   [name |-> <<"u","a","c","u","t","e">>, code |-> 250, has_rep |-> TRUE, replacement |-> <<"u">>],
   [name |-> <<"u","c","i","r","c">>, code |-> 251, has_rep |-> TRUE, replacement |-> <<"u">>],
   [name |-> <<"u","u","m","l">>, code |-> 252, has_rep |-> TRUE, replacement |-> <<"u">>],
   [name |-> <<"y","a","c","u","t","e">>, code |-> 253, has_rep |-> TRUE, replacement |-> <<"y">>],
   [name |-> <<"t","h","o","r","n">>, code |-> 254, has_rep |-> TRUE, replacement |-> <<"t">>],
   [name |-> <<"y","u","m","l">>, code |-> 255, has_rep |-> TRUE, replacement |-> <<"y">>],
   [name |-> <<"f","n","o","f">>, code |-> 402, has_rep |-> TRUE, replacement |-> <<"f">>],
   [name |-> <<"A","l","p","h","a">>, code |-> 913, has_rep |-> TRUE, replacement |-> <<"a","l","p","h","a">>],
   [name |-> <<"B","e","t","a">>, code |-> 914, has_rep |-> TRUE, replacement |-> <<"b","e","t","a">>],
   [name |-> <<"G","a","m","m","a">>, code |-> 915, has_rep |-> TRUE, replacement |-> <<"g","a","m","m","a">>],
   [name |-> <<"D","e","l","t","a">>, code |-> 916, has_rep |-> TRUE, replacement |-> <<"d","e","l","t","a">>],
   [name |-> <<"E","p","s","i","l","o","n">>, code |-> 917, has_rep |-> TRUE, replacement |-> <<"e","p","s","i","l","o","n">>],
   [name |-> <<"Z","e","t","a">>, code |-> 918, has_rep |-> TRUE, replacement |-> <<"z","e","t","a">>],
   [name |-> <<"E","t","a">>, code |-> 919, has_rep |-> TRUE, replacement |-> <<"e","t","a">>],
   [name |-> <<"T","h","e","t","a">>, code |-> 920, has_rep |-> TRUE, replacement |-> <<"t","h","e","t","a">>],
   [name |-> <<"I","o","t","a">>, code |-> 921, has_rep |-> TRUE, replacement |-> <<"i","o","t","a">>],
   [name |-> <<"K","a","p","p","a">>, code |-> 922, has_rep |-> TRUE, replacement |-> <<"k","a","p","p","a">>],
   [name |-> <<"L","a","m","b","d","a">>, code |-> 923, has_rep |-> TRUE, replacement |-> <<"l","a","m","b","d","a">>],
   [name |-> <<"M","u">>, code |-> 924, has_rep |-> TRUE, replacement |-> <<"m","u">>],
   [name |-> <<"N","u">>, code |-> 925, has_rep |-> TRUE, replacement |-> <<"n","u">>],
   [name |-> <<"X","i">>, code |-> 926, has_rep |-> TRUE, replacement |-> <<"x","i">>],
   [name |-> <<"O","m","i","c","r","o","n">>, code |-> 927, has_rep |-> TRUE, replacement |-> <<"o","m","i","c","r","o","n">>],
   [name |-> <<"P","i">>, code |-> 928, has_rep |-> TRUE, replacement |-> <<"p","i">>],
   [name |-> <<"R","h","o">>, code |-> 929, has_rep |-> TRUE, replacement |-> <<"r","h","o">>],
   [name |-> <<"S","i","g","m","a">>, code |-> 931, has_rep |-> TRUE, replacement |-> <<"s","i","g","m","a">>],
   [name |-> <<"T","a","u">>, code |-> 932, has_rep |-> TRUE, replacement |-> <<"t","a","u">>],
   [name |-> <<"U","p","s","i","l","o","n">>, code |-> 933, has_rep |-> TRUE, replacement |-> <<"u","p","s","i","l","o","n">>],
   [name |-> <<"P","h","i">>, code |-> 934, has_rep |-> TRUE, replacement |-> <<"p","h","i">>],
   [name |-> <<"C","h","i">>, code |-> 935, has_rep |-> TRUE, replacement |-> <<"c","h","i">>],
   [name |-> <<"P","s","i">>, code |-> 936, has_rep |-> TRUE, replacement |-> <<"p","s","i">>],
   [name |-> <<"O","m","e","g","a">>, code |-> 937, has_rep |-> TRUE, replacement |-> <<"o","m","e","g","a">>],
   [name |-> <<"a","l","p","h","a">>, code |-> 945, has_rep |-> TRUE, replacement |-> <<"a","l","p","h","a">>],
   [name |-> <<"b","e","t","a">>, code |-> 946, has_rep |-> TRUE, replacement |-> <<"b","e","t","a">>],
   [name |-> <<"g","a","m","m","a">>, code |-> 947, has_rep |-> TRUE, replacement |-> <<"g","a","m","m","a">>],
   [name |-> <<"d","e","l","t","a">>, code |-> 948, has_rep |-> TRUE, replacement |-> <<"d","e","l","t","a">>],
   [name |-> <<"e","p","s","i","l","o","n">>, code |-> 949, has_rep |-> TRUE, replacement |-> <<"e","p","s","i","l","o","n">>],
   [name |-> <<"z","e","t","a">>, code |-> 950, has_rep |-> TRUE, replacement |-> <<"z","e","t","a">>],
   [name |-> <<"e","t","a">>, code |-> 951, has_rep |-> TRUE, replacement |-> <<"e","t","a">>],
   [name |-> <<"t","h","e","t","a">>, code |-> 952, has_rep |-> TRUE, replacement |-> <<"t","h","e","t","a">>],
   [name |-> <<"i","o","t","a">>, code |-> 953, has_rep |-> TRUE, replacement |-> <<"i","o","t","a">>],
   [name |-> <<"k","a","p","p","a">>, code |-> 954, has_rep |-> TRUE, replacement |-> <<"k","a","p","p","a">>],
   [name |-> <<"l","a","m","b","d","a">>, code |-> 955, has_rep |-> TRUE, replacement |-> <<"l","a","m","b","d","a">>],
   [name |-> <<"m","u">>, code |-> 956, has_rep |-> TRUE, replacement |-> <<"m","u">>],
   [name |-> <<"n","u">>, code |-> 957, has_rep |-> TRUE, replacement |-> <<"n","u">>],
   [name |-> <<"x","i">>, code |-> 958, has_rep |-> TRUE, replacement |-> <<"x","i">>],
   [name |-> <<"o","m","i","c","r","o","n">>, code |-> 959, has_rep |-> TRUE, replacement |-> <<"o","m","i","c","r","o","n">>],
   [name |-> <<"p","i">>, code |-> 960, has_rep |-> TRUE, replacement |-> <<"p","i">>],
   [name |-> <<"r","h","o">>, code |-> 961, has_rep |-> TRUE, replacement |-> <<"r","h","o">>],
   [name |-> <<"s","i","g","m","a","f">>, code |-> 962, has_rep |-> TRUE, replacement |-> <<"s","i","g","m","a","f">>],
   [name |-> <<"s","i","g","m","a">>, code |-> 963, has_rep |-> TRUE, replacement |-> <<"s","i","g","m","a">>],
   [name |-> <<"t","a","u">>, code |-> 964, has_rep |-> TRUE, replacement |-> <<"t","a","u">>],
   [name |-> <<"u","p","s","i","l","o","n">>, code |-> 965, has_rep |-> TRUE, replacement |-> <<"u","p","s","i","l","o","n">>],
   [name |-> <<"p","h","i">>, code |-> 966, has_rep |-> TRUE, replacement |-> <<"p","h","i">>],
   [name |-> <<"c","h","i">>, code |-> 967, has_rep |-> TRUE, replacement |-> <<"c","h","i">>],
   [name |-> <<"p","s","i">>, code |-> 968, has_rep |-> TRUE, replacement |-> <<"p","s","i">>],
   [name |-> <<"o","m","e","g","a">>, code |-> 969, has_rep |-> TRUE, replacement |-> <<"o","m","e","g","a">>],
   [name |-> <<"t","h","e","t","a","s","y","m">>, code |-> 977, has_rep |-> TRUE, replacement |-> <<"t","h","e","t","a","s","y","m">>],
   [name |-> <<"u","p","s","i","h">>, code |-> 978, has_rep |-> TRUE, replacement |-> <<"u","p","s","i","h">>],
   [name |-> <<"p","i","v">>, code |-> 982, has_rep |-> TRUE, replacement |-> <<"p","i","v">>],
   [name |-> <<"b","u","l","l">>, code |-> 8226, has_rep |-> TRUE, replacement |-> <<"b","u","l","l">>],
   [name |-> <<"h","e","l","l","i","p">>, code |-> 8230, has_rep |-> TRUE, replacement |-> <<".",".",".">>],
   [name |-> <<"p","r","i","m","e">>, code |-> 8242, has_rep |-> TRUE, replacement |-> <<"'">>],
   [name |-> <<"P","r","i","m","e">>, code |-> 8243, has_rep |-> TRUE, replacement |-> <<"'">>],
   [name |-> <<"o","l","i","n","e">>, code |-> 8254, has_rep |-> TRUE, replacement |-> <<"-">>],
   [name |-> <<"f","r","a","s","l">>, code |-> 8260, has_rep |-> FALSE, replacement |-> <<>>],
   [name |-> <<"w","e","i","e","r","p">>, code |-> 8472, has_rep |-> FALSE, replacement |-> <<>>],
   [name |-> <<"i","m","a","g","e">>, code |-> 8465, has_rep |-> FALSE, replacement |-> <<>>],
   [name |-> <<"r","e","a","l">>, code |-> 8476, has_rep |-> FALSE, replacement |-> <<>>],
   [name |-> <<"t","r","a","d","e">>, code |-> 8482, has_rep |-> FALSE, replacement |-> <<>>],
   [name |-> <<"a","l","e","f","s","y","m">>, code |-> 8501, has_rep |-> TRUE, replacement |-> <<"a">>],
   [name |-> <<"l","a","r","r">>, code |-> 8592, has_rep |-> FALSE, replacement |-> <<>>],
   [name |-> <<"u","a","r","r">>, code |-> 8593, has_rep |-> FALSE, replacement |-> <<>>],
   [name |-> <<"r","a","r","r">>, code |-> 8594, has_rep |-> FALSE, replacement |-> <<>>],
   [name |-> <<"d","a","r","r">>, code |-> 8595, has_rep |-> FALSE, replacement |-> <<>>],
   [name |-> <<"h","a","r","r">>, code |-> 8596, has_rep |-> FALSE, replacement |-> <<>>],
   [name |-> <<"c","r","a","r","r">>, code |-> 8629, has_rep |-> FALSE, replacement |-> <<>>],
   [name |-> <<"l","A","r","r">>, code |-> 8656, has_rep |-> FALSE, replacement |-> <<>>],
   [name |-> <<"u","A","r","r">>, code |-> 8657, has_rep |-> FALSE, replacement |-> <<>>],
   [name |-> <<"r","A","r","r">>, code |-> 8658, has_rep |-> FALSE, replacement |-> <<>>],
   [name |-> <<"d","A","r","r">>, code |-> 8659, has_rep |-> FALSE, replacement |-> <<>>],
   [name |-> <<"h","A","r","r">>, code |-> 8660, has_rep |-> FALSE, replacement |-> <<>>],
   [name |-> <<"f","o","r","a","l","l">>, code |-> 8704, has_rep |-> FALSE, replacement |-> <<>>],
   [name |-> <<"p","a","r","t">>, code |-> 8706, has_rep |-> FALSE, replacement |-> <<>>],
   [name |-> <<"e","x","i","s","t">>, code |-> 8707, has_rep |-> FALSE, replacement |-> <<>>],
   [name |-> <<"e","m","p","t","y">>, code |-> 8709, has_rep |-> FALSE, replacement |-> <<>>],
   [name |-> <<"n","a","b","l","a">>, code |-> 8711, has_rep |-> FALSE, replacement |-> <<>>],
   [name |-> <<"i","s","i","n">>, code |-> 8712, has_rep |-> FALSE, replacement |-> <<>>],
   [name |-> <<"n","o","t","i","n">>, code |-> 8713, has_rep |-> FALSE, replacement |-> <<>>],
   [name |-> <<"n","i">>, code |-> 8715, has_rep |-> FALSE, replacement |-> <<>>],
   [name |-> <<"p","r","o","d">>, code |-> 8719, has_rep |-> FALSE, replacement |-> <<>>],
   [name |-> <<"s","u","m">>, code |-> 8721, has_rep |-> TRUE, replacement |-> <<"E">>],
   [name |-> <<"m","i","n","u","s">>, code |-> 8722, has_rep |-> TRUE, replacement |-> <<"-">>],
   [name |-> <<"l","o","w","a","s","t">>, code |-> 8727, has_rep |-> FALSE, replacement |-> <<>>],
   [name |-> <<"r","a","d","i","c">>, code |-> 8730, has_rep |-> FALSE, replacement |-> <<>>],
   [name |-> <<"p","r","o","p">>, code |-> 8733, has_rep |-> FALSE, replacement |-> <<>>],
   [name |-> <<"i","n","f","i","n">>, code |-> 8734, has_rep |-> FALSE, replacement |-> <<>>],
   [name |-> <<"a","n","g">>, code |-> 8736, has_rep |-> TRUE, replacement |-> <<"'">>],
   [name |-> <<"a","n","d">>, code |-> 8743, has_rep |-> TRUE, replacement |-> <<"&">>],
   [name |-> <<"o","r">>, code |-> 8744, has_rep |-> TRUE, replacement |-> <<"|">>],
   [name |-> <<"c","a","p">>, code |-> 8745, has_rep |-> FALSE, replacement |-> <<>>],
   [name |-> <<"c","u","p">>, code |-> 8746, has_rep |-> FALSE, replacement |-> <<>>],
   [name |-> <<"g","i","n","t">>, code |-> 8747, has_rep |-> FALSE, replacement |-> <<>>],
   [name |-> <<"t","h","e","r","e","4">>, code |-> 8756, has_rep |-> FALSE, replacement |-> <<>>],
   [name |-> <<"s","i","m">>, code |-> 8764, has_rep |-> FALSE, replacement |-> <<>>],
   [name |-> <<"c","o","n","g">>, code |-> 8773, has_rep |-> FALSE, replacement |-> <<>>],
   [name |-> <<"a","s","y","m","p">>, code |-> 8776, has_rep |-> FALSE, replacement |-> <<>>],
   [name |-> <<"n","e">>, code |-> 8800, has_rep |-> TRUE, replacement |-> <<"!","=">>],
   [name |-> <<"e","q","u","i","v">>, code |-> 8801, has_rep |-> TRUE, replacement |-> <<"=","=">>],
   [name |-> <<"l","e">>, code |-> 8804, has_rep |-> TRUE, replacement |-> <<"<","=">>],
   [name |-> <<"g","e">>, code |-> 8805, has_rep |-> TRUE, replacement |-> <<">","=">>],
   [name |-> <<"s","u","b">>, code |-> 8834, has_rep |-> FALSE, replacement |-> <<>>],
   [name |-> <<"s","u","p">>, code |-> 8835, has_rep |-> FALSE, replacement |-> <<>>],
   [name |-> <<"n","s","u","b">>, code |-> 8836, has_rep |-> FALSE, replacement |-> <<>>],
   [name |-> <<"s","u","b","e">>, code |-> 8838, has_rep |-> FALSE, replacement |-> <<>>],
   [name |-> <<"s","u","p","e">>, code |-> 8839, has_rep |-> FALSE, replacement |-> <<>>],
   [name |-> <<"o","p","l","u","s">>, code |-> 8853, has_rep |-> FALSE, replacement |-> <<>>],
   [name |-> <<"o","t","i","m","e","s">>, code |-> 8855, has_rep |-> FALSE, replacement |-> <<>>],
   [name |-> <<"p","e","r","p">>, code |-> 8869, has_rep |-> FALSE, replacement |-> <<>>],
   [name |-> <<"s","d","o","t">>, code |-> 8901, has_rep |-> FALSE, replacement |-> <<>>],
   [name |-> <<"l","c","e","i","l">>, code |-> 8968, has_rep |-> FALSE, replacement |-> <<>>],
   [name |-> <<"r","c","e","i","l">>, code |-> 8969, has_rep |-> FALSE, replacement |-> <<>>],
   [name |-> <<"l","f","l","o","o","r">>, code |-> 8970, has_rep |-> FALSE, replacement |-> <<>>],
   [name |-> <<"r","f","l","o","o","r">>, code |-> 8971, has_rep |-> FALSE, replacement |-> <<>>],
   [name |-> <<"l","a","n","g">>, code |-> 9001, has_rep |-> FALSE, replacement |-> <<>>],
   [name |-> <<"r","a","n","g">>, code |-> 9002, has_rep |-> FALSE, replacement |-> <<>>],
   [name |-> <<"l","o","z">>, code |-> 9674, has_rep |-> FALSE, replacement |-> <<>>],
   [name |-> <<"s","p","a","d","e","s">>, code |-> 9824, has_rep |-> FALSE, replacement |-> <<>>],
   [name |-> <<"c","l","u","b","s">>, code |-> 9827, has_rep |-> FALSE, replacement |-> <<>>],
   [name |-> <<"h","e","a","r","t","s">>, code |-> 9829, has_rep |-> FALSE, replacement |-> <<>>],
   [name |-> <<"d","i","a","m","s">>, code |-> 9830, has_rep |-> FALSE, replacement |-> <<>>],
   [name |-> <<"O","E","l","i","g">>, code |-> 338, has_rep |-> FALSE, replacement |-> <<>>],
   [name |-> <<"o","e","l","i","g">>, code |-> 339, has_rep |-> FALSE, replacement |-> <<>>],
   [name |-> <<"S","c","a","r","o","n">>, code |-> 352, has_rep |-> FALSE, replacement |-> <<>>],
   [name |-> <<"s","c","a","r","o","n">>, code |-> 353, has_rep |-> FALSE, replacement |-> <<>>],
   [name |-> <<"Y","u","m","l">>, code |-> 376, has_rep |-> FALSE, replacement |-> <<>>],
   [name |-> <<"c","i","r","c">>, code |-> 710, has_rep |-> FALSE, replacement |-> <<>>],
   [name |-> <<"t","i","l","d","e">>, code |-> 732, has_rep |-> FALSE, replacement |-> <<>>],
   [name |-> <<"e","n","s","p">>, code |-> 8194, has_rep |-> FALSE, replacement |-> <<>>],
   [name |-> <<"e","m","s","p">>, code |-> 8195, has_rep |-> FALSE, replacement |-> <<>>],
   [name |-> <<"t","h","i","n","s","p">>, code |-> 8201, has_rep |-> FALSE, replacement |-> <<>>],
   [name |-> <<"z","w","n","j">>, code |-> 8204, has_rep |-> FALSE, replacement |-> <<>>],
   [name |-> <<"z","w","j">>, code |-> 8205, has_rep |-> FALSE, replacement |-> <<>>],
   [name |-> <<"l","r","m">>, code |-> 8206, has_rep |-> FALSE, replacement |-> <<>>],
   [name |-> <<"r","l","m">>, code |-> 8207, has_rep |-> FALSE, replacement |-> <<>>],
   [name |-> <<"n","d","a","s","h">>, code |-> 8211, has_rep |-> TRUE, replacement |-> <<"-">>],
   [name |-> <<"m","d","a","s","h">>, code |-> 8212, has_rep |-> TRUE, replacement |-> <<"-">>],
   [name |-> <<"l","s","q","u","o">>, code |-> 8216, has_rep |-> TRUE, replacement |-> <<"'">>],
   [name |-> <<"r","s","q","u","o">>, code |-> 8217, has_rep |-> TRUE, replacement |-> <<"'">>],
   [name |-> <<"s","b","q","u","o">>, code |-> 8218, has_rep |-> TRUE, replacement |-> <<"\"">>],
   [name |-> <<"l","d","q","u","o">>, code |-> 8220, has_rep |-> TRUE, replacement |-> <<"\"">>],
   [name |-> <<"r","d","q","u","o">>, code |-> 8221, has_rep |-> TRUE, replacement |-> <<"\"">>],
   [name |-> <<"b","d","q","u","o">>, code |-> 8222, has_rep |-> TRUE, replacement |-> <<"\"">>],
   [name |-> <<"d","a","g","g","e","r">>, code |-> 8224, has_rep |-> TRUE, replacement |-> <<"T">>],
   [name |-> <<"D","a","g","g","e","r">>, code |-> 8225, has_rep |-> TRUE, replacement |-> <<"T">>],
   [name |-> <<"p","e","r","m","i","l">>, code |-> 8240, has_rep |-> FALSE, replacement |-> <<>>],
   [name |-> <<"l","s","a","q","u","o">>, code |-> 8249, has_rep |-> TRUE, replacement |-> <<"\"">>],
   [name |-> <<"r","s","a","q","u","o">>, code |-> 8250, has_rep |-> TRUE, replacement |-> <<"\"">>],
   [name |-> <<"e","u","r","o">>, code |-> 8364, has_rep |-> TRUE, replacement |-> <<"E">>]
  >>

tag_defs ==
  <<
   [name |-> <<"a">>, id |-> "Tag_A", flags |-> {}],
   [name |-> <<"a","b","b","r">>, id |-> "Tag_ABBR", flags |-> {"CM_INLINE"}],
   [name |-> <<"a","c","r","o","n","y","m">>, id |-> "Tag_ACRONYM", flags |-> {"CM_INLINE"}],
   [name |-> <<"a","d","d","r","e","s","s">>, id |-> "Tag_ADDRESS", flags |-> {"CM_BLOCK"}],
   [name |-> <<"a","p","p","l","e","t">>, id |-> "Tag_APPLET", flags |-> {"CM_OBJECT", "CM_IMG", "CM_INLINE", "CM_PARAM"}],
   [name |-> <<"a","r","e","a">>, id |-> "Tag_AREA", flags |-> {"CM_BLOCK", "CM_EMPTY"}],
   [name |-> <<"b">>, id |-> "Tag_B", flags |-> {"CM_INLINE", "FL_BLOCK"}],
   [name |-> <<"b","a","s","e">>, id |-> "Tag_BASE", flags |-> {"CM_HEAD", "CM_EMPTY"}],
   [name |-> <<"b","a","s","e","f","o","n","t">>, id |-> "Tag_BASEFONT", flags |-> {"CM_INLINE", "CM_EMPTY"}],
   [name |-> <<"b","d","o">>, id |-> "Tag_BDO", flags |-> {"CM_INLINE"}],
   [name |-> <<"b","i","g">>, id |-> "Tag_BIG", flags |-> {"CM_INLINE"}],
   [name |-> <<"b","l","o","c","k","q","u","o","t","e">>, id |-> "Tag_BLOCKQUOTE", flags |-> {"CM_BLOCK"}],
   [name |-> <<"b","o","d","y">>, id |-> "Tag_BODY", flags |-> {"CM_HTML", "CM_OPT", "CM_OMITST", "CM_UNIQUE", "FL_BLOCK"}],
   [name |-> <<"b","r">>, id |-> "Tag_BR", flags |-> {"CM_INLINE", "CM_EMPTY"}],
   [name |-> <<"b","u","t","t","o","n">>, id |-> "Tag_BUTTON", flags |-> {"CM_INLINE", "FL_BLOCK"}],
   [name |-> <<"c","a","p","t","i","o","n">>, id |-> "Tag_CAPTION", flags |-> {"CM_TABLE"}],
   [name |-> <<"c","e","n","t","e","r">>, id |-> "Tag_CENTER", flags |-> {"CM_BLOCK"}],
   [name |-> <<"c","i","t","e">>, id |-> "Tag_CITE", flags |-> {"CM_INLINE"}],
   [name |-> <<"c","o","d","e">>, id |-> "Tag_CODE", flags |-> {"CM_INLINE"}],
   [name |-> <<"c","o","l">>, id |-> "Tag_COL", flags |-> {"CM_TABLE", "CM_EMPTY"}],
   [name |-> <<"c","o","l","g","r","o","u","p">>, id |-> "Tag_COLGROUP", flags |-> {"CM_TABLE", "CM_OPT"}],
   [name |-> <<"d","d">>, id |-> "Tag_DD", flags |-> {"CM_DEFLIST", "CM_OPT", "CM_NO_INDENT"}],
   [name |-> <<"d","e","l">>, id |-> "Tag_DEL", flags |-> {"CM_INLINE", "CM_BLOCK", "CM_MIXED"}],
   [name |-> <<"d","f","n">>, id |-> "Tag_DFN", flags |-> {"CM_INLINE"}],
   [name |-> <<"d","i","r">>, id |-> "Tag_DIR", flags |-> {"CM_BLOCK", "CM_OBSOLETE"}],
   [name |-> <<"d","i","v">>, id |-> "Tag_DIV", flags |-> {"CM_BLOCK", "FL_BLOCK"}],
   [name |-> <<"d","l">>, id |-> "Tag_DL", flags |-> {"CM_BLOCK", "FL_BLOCK"}],
   [name |-> <<"d","t">>, id |-> "Tag_DT", flags |-> {"CM_DEFLIST", "CM_OPT", "CM_NO_INDENT"}],
   [name |-> <<"e","m">>, id |-> "Tag_EM", flags |-> {"CM_INLINE"}],
   [name |-> <<"f","i","e","l","d","s","e","t">>, id |-> "Tag_FIELDSET", flags |-> {"CM_BLOCK"}],
   [name |-> <<"f","o","n","t">>, id |-> "Tag_FONT", flags |-> {"FL_BLOCK"}],
   [name |-> <<"f","o","r","m">>, id |-> "Tag_FORM", flags |-> {"CM_BLOCK"}],
   [name |-> <<"f","r","a","m","e">>, id |-> "Tag_FRAME", flags |-> {"CM_FRAMES", "CM_EMPTY"}],
   [name |-> <<"f","r","a","m","e","s","e","t">>, id |-> "Tag_FRAMESET", flags |-> {"CM_HTML", "CM_FRAMES"}],
   [name |-> <<"h","1">>, id |-> "Tag_H1", flags |-> {"CM_BLOCK", "CM_HEADING"}],
   [name |-> <<"h","2">>, id |-> "Tag_H2", flags |-> {"CM_BLOCK", "CM_HEADING"}],
   [name |-> <<"h","3">>, id |-> "Tag_H3", flags |-> {"CM_BLOCK", "CM_HEADING"}],
   [name |-> <<"h","4">>, id |-> "Tag_H4", flags |-> {"CM_BLOCK", "CM_HEADING"}],
   [name |-> <<"h","5">>, id |-> "Tag_H5", flags |-> {"CM_BLOCK", "CM_HEADING"}],
   [name |-> <<"h","6">>, id |-> "Tag_H6", flags |-> {"CM_BLOCK", "CM_HEADING"}],
   [name |-> <<"h","e","a","d">>, id |-> "Tag_HEAD", flags |-> {"CM_HTML", "CM_OPT", "CM_OMITST", "CM_UNIQUE"}],
   [name |-> <<"h","r">>, id |-> "Tag_HR", flags |-> {"CM_BLOCK", "CM_EMPTY"}],
   [name |-> <<"h","t","m","l">>, id |-> "Tag_HTML", flags |-> {"CM_HTML", "CM_OPT", "CM_OMITST", "CM_UNIQUE"}],
   [name |-> <<"i">>, id |-> "Tag_I", flags |-> {"CM_INLINE"}],
   [name |-> <<"i","f","r","a","m","e">>, id |-> "Tag_IFRAME", flags |-> {}],
   [name |-> <<"i","m","g">>, id |-> "Tag_IMG", flags |-> {"CM_INLINE", "CM_IMG", "CM_EMPTY"}],
   [name |-> <<"i","n","p","u","t">>, id |-> "Tag_INPUT", flags |-> {"CM_INLINE", "CM_IMG", "CM_EMPTY"}],
   [name |-> <<"i","n","s">>, id |-> "Tag_INS", flags |-> {"CM_INLINE", "CM_BLOCK", "CM_MIXED"}],
   [name |-> <<"i","s","i","n","d","e","x">>, id |-> "Tag_ISINDEX", flags |-> {"CM_BLOCK", "CM_EMPTY"}],
   [name |-> <<"k","b","d">>, id |-> "Tag_KBD", flags |-> {"CM_INLINE"}],
   [name |-> <<"l","a","b","e","l">>, id |-> "Tag_LABEL", flags |-> {"CM_INLINE"}],
   [name |-> <<"l","e","g","e","n","d">>, id |-> "Tag_LEGEND", flags |-> {"CM_INLINE"}],
   [name |-> <<"l","i">>, id |-> "Tag_LI", flags |-> {"CM_LIST", "CM_OPT", "CM_NO_INDENT", "FL_BLOCK"}],
   [name |-> <<"l","i","n","k">>, id |-> "Tag_LINK", flags |-> {"CM_HEAD", "CM_EMPTY"}],
   [name |-> <<"l","i","s","t","i","n","g">>, id |-> "Tag_LISTING", flags |-> {"CM_BLOCK", "CM_OBSOLETE"}],
   [name |-> <<"m","a","p">>, id |-> "Tag_MAP", flags |-> {"CM_INLINE"}],
   [name |-> <<"m","e","n","u">>, id |-> "Tag_MENU", flags |-> {"CM_BLOCK", "CM_OBSOLETE"}],
   [name |-> <<"m","e","t","a">>, id |-> "Tag_META", flags |-> {"CM_HEAD", "CM_INLINE", "CM_EMPTY"}],
   [name |-> <<"n","o","f","r","a","m","e","s">>, id |-> "Tag_NOFRAMES", flags |-> {"CM_BLOCK", "CM_FRAMES"}],
   [name |-> <<"n","o","s","c","r","i","p","t">>, id |-> "Tag_NOSCRIPT", flags |-> {"CM_BLOCK", "CM_INLINE", "CM_MIXED"}],
   [name |-> <<"o","b","j","e","c","t">>, id |-> "Tag_OBJECT", flags |-> {"CM_OBJECT", "CM_HEAD", "CM_IMG", "CM_INLINE", "CM_PARAM"}],
   [name |-> <<"o","l">>, id |-> "Tag_OL", flags |-> {"CM_BLOCK", "FL_BLOCK"}],
   [name |-> <<"o","p","t","g","r","o","u","p">>, id |-> "Tag_OPTGROUP", flags |-> {"CM_FIELD", "CM_OPT"}],
   [name |-> <<"o","p","t","i","o","n">>, id |-> "Tag_OPTION", flags |-> {"CM_FIELD", "CM_OPT"}],
   [name |-> <<"p">>, id |-> "Tag_P", flags |-> {"CM_BLOCK", "CM_OPT", "FL_BLOCK"}],
   [name |-> <<"p","a","r","a","m">>, id |-> "Tag_PARAM", flags |-> {"CM_INLINE", "CM_EMPTY"}],
   [name |-> <<"p","l","a","i","n","t","e","x","t">>, id |-> "Tag_PLAINTEXT", flags |-> {"CM_BLOCK", "CM_OBSOLETE"}],
   [name |-> <<"p","r","e">>, id |-> "Tag_PRE", flags |-> {"CM_BLOCK"}],
   [name |-> <<"q">>, id |-> "Tag_Q", flags |-> {"CM_INLINE"}],
   [name |-> <<"r","b">>, id |-> "Tag_RB", flags |-> {"CM_INLINE"}],
   [name |-> <<"r","b","c">>, id |-> "Tag_RBC", flags |-> {"CM_INLINE"}],
   [name |-> <<"r","p">>, id |-> "Tag_RP", flags |-> {"CM_INLINE"}],
   [name |-> <<"r","t">>, id |-> "Tag_RT", flags |-> {"CM_INLINE"}],
   [name |-> <<"r","t","c">>, id |-> "Tag_RTC", flags |-> {"CM_INLINE"}],
   [name |-> <<"r","u","b","y">>, id |-> "Tag_RUBY", flags |-> {"CM_INLINE"}],
   [name |-> <<"s">>, id |-> "Tag_S", flags |-> {"CM_INLINE"}],
   [name |-> <<"s","a","m","p">>, id |-> "Tag_SAMP", flags |-> {"CM_INLINE"}],
   [name |-> <<"s","c","r","i","p","t">>, id |-> "Tag_SCRIPT", flags |-> {"CM_HEAD", "CM_MIXED"}],
   [name |-> <<"s","e","l","e","c","t">>, id |-> "Tag_SELECT", flags |-> {"CM_INLINE", "CM_FIELD"}],
   [name |-> <<"s","m","a","l","l">>, id |-> "Tag_SMALL", flags |-> {"CM_INLINE"}],
   [name |-> <<"s","p","a","n">>, id |-> "Tag_SPAN", flags |-> {"CM_BLOCK", "FL_BLOCK"}],
   [name |-> <<"s","t","r","i","k","e">>, id |-> "Tag_STRIKE", flags |-> {"CM_INLINE"}],
   [name |-> <<"s","t","r","o","n","g">>, id |-> "Tag_STRONG", flags |-> {"CM_INLINE"}],
   [name |-> <<"s","t","y","l","e">>, id |-> "Tag_STYLE", flags |-> {"CM_HEAD"}],
   [name |-> <<"s","u","b">>, id |-> "Tag_SUB", flags |-> {"CM_INLINE"}],
   [name |-> <<"s","u","p">>, id |-> "Tag_SUP", flags |-> {"CM_INLINE"}],
   [name |-> <<"t","a","b","l","e">>, id |-> "Tag_TABLE", flags |-> {"CM_BLOCK", "FL_BLOCK"}],
   [name |-> <<"t","b","o","d","y">>, id |-> "Tag_TBODY", flags |-> {"CM_TABLE", "CM_ROWGRP", "CM_OPT", "FL_BLOCK"}],
   [name |-> <<"t","d">>, id |-> "Tag_TD", flags |-> {"CM_ROW", "CM_OPT", "CM_NO_INDENT", "FL_BLOCK"}],
   [name |-> <<"t","e","x","t","a","r","e","a">>, id |-> "Tag_TEXTAREA", flags |-> {"CM_INLINE", "CM_FIELD"}],
   [name |-> <<"t","f","o","o","t">>, id |-> "Tag_TFOOT", flags |-> {"CM_TABLE", "CM_ROWGRP", "CM_OPT"}],
   [name |-> <<"t","h">>, id |-> "Tag_TH", flags |-> {"CM_ROW", "CM_OPT", "CM_NO_INDENT", "FL_BLOCK"}],
   [name |-> <<"t","h","e","a","d">>, id |-> "Tag_THEAD", flags |-> {"CM_TABLE", "CM_ROWGRP", "CM_OPT"}],
   [name |-> <<"t","i","t","l","e">>, id |-> "Tag_TITLE", flags |-> {"CM_HEAD", "CM_UNIQUE"}],
   [name |-> <<"t","r">>, id |-> "Tag_TR", flags |-> {"CM_TABLE", "CM_OPT", "FL_BLOCK"}],
   [name |-> <<"t","t">>, id |-> "Tag_TT", flags |-> {"CM_INLINE"}],
   [name |-> <<"u">>, id |-> "Tag_U", flags |-> {"CM_INLINE"}],
   [name |-> <<"u","l">>, id |-> "Tag_UL", flags |-> {"CM_BLOCK", "FL_BLOCK"}],
   [name |-> <<"v","a","r">>, id |-> "Tag_VAR", flags |-> {"CM_INLINE"}],
   [name |-> <<"x","m","p">>, id |-> "Tag_XMP", flags |-> {"CM_BLOCK", "CM_OBSOLETE"}],
   [name |-> <<"n","e","x","t","i","d">>, id |-> "Tag_NEXTID", flags |-> {"CM_HEAD", "CM_EMPTY"}],
   [name |-> <<"a","l","i","g","n">>, id |-> "Tag_ALIGN", flags |-> {"CM_BLOCK"}],
   [name |-> <<"b","g","s","o","u","n","d">>, id |-> "Tag_BGSOUND", flags |-> {"CM_HEAD", "CM_EMPTY"}],
   [name |-> <<"b","l","i","n","k">>, id |-> "Tag_BLINK", flags |-> {"CM_INLINE"}],
   [name |-> <<"c","o","m","m","e","n","t">>, id |-> "Tag_COMMENT", flags |-> {"CM_INLINE"}],
   [name |-> <<"e","m","b","e","d">>, id |-> "Tag_EMBED", flags |-> {"CM_INLINE", "CM_IMG", "CM_EMPTY"}],
   [name |-> <<"i","l","a","y","e","r">>, id |-> "Tag_ILAYER", flags |-> {"CM_INLINE"}],
   [name |-> <<"k","e","y","g","e","n">>, id |-> "Tag_KEYGEN", flags |-> {"CM_INLINE", "CM_EMPTY"}],
   [name |-> <<"l","a","y","e","r">>, id |-> "Tag_LAYER", flags |-> {"CM_BLOCK"}],
   [name |-> <<"m","a","r","q","u","e","e">>, id |-> "Tag_MARQUEE", flags |-> {"CM_INLINE", "CM_OPT"}],
   [name |-> <<"m","u","l","t","i","c","o","l">>, id |-> "Tag_MULTICOL", flags |-> {"CM_BLOCK"}],
   [name |-> <<"n","o","b","r">>, id |-> "Tag_NOBR", flags |-> {"CM_INLINE"}],
   [name |-> <<"n","o","e","m","b","e","d">>, id |-> "Tag_NOEMBED", flags |-> {"CM_INLINE"}],
   [name |-> <<"n","o","l","a","y","e","r">>, id |-> "Tag_NOLAYER", flags |-> {"CM_BLOCK", "CM_INLINE", "CM_MIXED"}],
   [name |-> <<"n","o","s","a","v","e">>, id |-> "Tag_NOSAVE", flags |-> {"CM_BLOCK"}],
   [name |-> <<"s","e","r","v","e","r">>, id |-> "Tag_SERVER", flags |-> {"CM_HEAD", "CM_MIXED", "CM_BLOCK", "CM_INLINE"}],
   [name |-> <<"s","e","r","v","l","e","t">>, id |-> "Tag_SERVLET", flags |-> {"CM_OBJECT", "CM_IMG", "CM_INLINE", "CM_PARAM"}],
   [name |-> <<"s","p","a","c","e","r">>, id |-> "Tag_SPACER", flags |-> {"CM_INLINE", "CM_EMPTY"}],
   [name |-> <<"w","b","r">>, id |-> "Tag_WBR", flags |-> {"CM_INLINE", "CM_EMPTY"}]
  >>

----------------------------------------------------------------------------
(* Entity decoder *)

\* bsearch (&key, entities_defs, ..., entity_cmp): the rows whose name equals
\* the key case-insensitively (several rows differ in case only)
EntitiesByName(key) ==
  {i \in 1..Len(entities_defs) : g_ascii_strcasecmp_eq(key, entities_defs[i].name)}

\* bsearch (&key, entities_defs_num, ..., entity_cmp_num)
EntitiesByCode(code) ==
  {i \in 1..Len(entities_defs) : entities_defs[i].code = code}

DigitVal(c) ==
  IF Ord(c) \in 48..57 THEN Ord(c) - 48
  ELSE IF Ord(c) \in 97..122 THEN Ord(c) - 97 + 10
  ELSE IF Ord(c) \in 65..90 THEN Ord(c) - 65 + 10
  ELSE 99

RECURSIVE DigitRun(_, _, _)
\* number of leading bytes of str, from index i, that are digits in base
DigitRun(str, i, base) ==
  IF i <= Len(str) /\ DigitVal(str[i]) < base
  THEN 1 + DigitRun(str, i + 1, base)
  ELSE 0

RECURSIVE DigitsValue(_, _, _, _, _)
DigitsValue(str, i, n, base, acc) ==
  IF n = 0 THEN acc
  ELSE DigitsValue(str, i + 1, n - 1, base,
                   Min(acc * base + DigitVal(str[i]), 134217727))

RECURSIVE SpaceRun(_, _)
SpaceRun(str, i) ==
  IF i <= Len(str) /\ g_ascii_isspace(str[i]) THEN 1 + SpaceRun(str, i + 1) ELSE 0

\* strtoul (str, &end_ptr, base) on the NUL-terminated string str:
\* val is the result, used the offset of end_ptr in str.  Values are kept
\* exact below 2^27 - 1 and saturate there (a negated number saturates as
\* well): every such value is above the Unicode range and above every code
\* of entities_defs, as its 32-bit truncation is for numbers of up to nine
\* decimal digits.
strtoul(str, base) ==
  LET Converted(st, neg) ==
        LET Valued(n, v) ==
              IF n = 0
              THEN [val |-> 0, used |-> 0]
              ELSE [val  |-> IF neg /\ v > 0 THEN 134217727 ELSE v,
                    used |-> st - 1 + n]
            Counted(n) == Valued(n, DigitsValue(str, st, n, base, 0))
        IN  Counted(DigitRun(str, st, base))
      Signed(sp, sign) ==
        Converted(sp + sign + 1
                     + (IF /\ base = 16
                           /\ sp + sign + 3 <= Len(str)
                           /\ str[sp + sign + 1] = "0"
                           /\ str[sp + sign + 2] \in {"x", "X"}
                           /\ DigitVal(str[sp + sign + 3]) < 16
                        THEN 2 ELSE 0),
                  sign = 1 /\ str[sp + 1] = "-")
      Skipped(sp) ==
        Signed(sp, IF sp + 1 <= Len(str) /\ str[sp + 1] \in {"+", "-"} THEN 1 ELSE 0)
  IN  Skipped(SpaceRun(str, 1))

\* g_unichar_isgraph: printable and not a space
g_unichar_isgraph(v) ==
  \/ v \in 33..126
  \/ /\ v >= 161
     /\ v <= 1114111
     /\ v # 173
     /\ v \notin 55296..57343

\* g_unichar_to_utf8 (v, outbuf): the bytes written
g_unichar_to_utf8(v) ==
  IF v < 128 THEN <<Chr(v)>>
  ELSE IF v < 2048
  THEN <<Chr(192 + (v \div 64)), Chr(128 + (v % 64))>>
  ELSE IF v < 65536
  THEN <<Chr(224 + (v \div 4096)), Chr(128 + ((v \div 64) % 64)),
         Chr(128 + (v % 64))>>
  ELSE IF v < 2097152
  THEN <<Chr(240 + (v \div 262144)), Chr(128 + ((v \div 4096) % 64)),
         Chr(128 + ((v \div 64) % 64)), Chr(128 + (v % 64))>>
  ELSE IF v < 67108864
  THEN <<Chr(248 + (v \div 16777216)), Chr(128 + ((v \div 262144) % 64)),
         Chr(128 + ((v \div 4096) % 64)), Chr(128 + ((v \div 64) % 64)),
         Chr(128 + (v % 64))>>
  ELSE <<Chr(252 + (v \div 1073741824)), Chr(128 + ((v \div 16777216) % 64)),
         Chr(128 + ((v \div 262144) % 64)), Chr(128 + ((v \div 4096) % 64)),
         Chr(128 + ((v \div 64) % 64)), Chr(128 + (v % 64))>>

\* the locals of rspamd_html_decode_entitles_inplace on entry
\* (len == 0 means strlen (s))
DecodeStart(s, len) ==
  [s |-> s, l |-> IF len = 0 THEN Len(s) ELSE len,
   h |-> 0, t |-> 0, e |-> 0, state |-> 0, wend |-> 0]

\* memcpy / memmove of bs to s + t, then t += Len(bs)
DecodeEmit(d, bs) ==
  [d EXCEPT !.s = WriteAt(d.s, d.t, bs),
            !.t = d.t + Len(bs),
            !.wend = Max(d.wend, d.t + Len(bs))]

\* the rows bsearch may return for the token between e and h
DecodeFound(d) ==
  IF d.state = 1 /\ d.s[d.h + 1] = ";" /\ d.h > d.e
  THEN LET key == Span(d.s, d.e + 1, d.h)
       IN  IF (key = <<>> \/ key[1] # "#") THEN EntitiesByName(key) ELSE {}
  ELSE {}

\* the numeric branch of case 1
DecodeNumeric(d) ==
  LET c2   == d.s[d.e + 3]
      base == IF c2 \in {"x", "X"} THEN 16
              ELSE IF c2 \in {"o", "O"} THEN 8
              ELSE 10
      Replaced(f) == IF f.has_rep THEN DecodeEmit(d, f.replacement) ELSE d
      Coded(val, byc) ==
        IF byc # {}
        THEN Replaced(entities_defs[CHOOSE i \in byc : TRUE])
        ELSE IF g_unichar_isgraph(val)
        THEN DecodeEmit(d, g_unichar_to_utf8(val))
        ELSE d
      Converted(str, r) ==
        IF r.used < Len(str)
        THEN DecodeEmit(d, Span(d.s, d.e, d.h))
        ELSE Coded(r.val, EntitiesByCode(r.val))
      Numbered(str) == Converted(str, strtoul(str, base))
  IN  Numbered(IF base = 10 THEN Span(d.s, d.e + 2, d.h)
               ELSE Span(d.s, d.e + 3, d.h))

\* one iteration of the while loop; found is the row returned by the
\* by-name bsearch (0: none)
DecodeStep(d, found) ==
  IF d.state = 0
  THEN IF d.s[d.h + 1] = "&"
       THEN [d EXCEPT !.state = 1, !.e = d.h, !.h = d.h + 1]
       ELSE [DecodeEmit(d, <<d.s[d.h + 1]>>) EXCEPT !.h = d.h + 1]
  ELSE IF d.s[d.h + 1] = ";" /\ d.h > d.e
       THEN LET Closed(d1) == [d1 EXCEPT !.s = WriteAt(d1.s, d.h, <<";">>),
                                         !.state = 0,
                                         !.h = d.h + 1]
                Row(f) == IF f.has_rep
                          THEN DecodeEmit(d, f.replacement)
                          ELSE DecodeEmit(d, Span(d.s, d.e, d.h))
            IN  Closed(IF found # 0
                       THEN Row(entities_defs[found])
                       ELSE IF d.e + 2 < d.h
                       THEN DecodeNumeric(d)
                       ELSE d)
       ELSE [d EXCEPT !.h = d.h + 1]

\* the row a deterministic run takes among the candidates
FirstFound(d) ==
  LET Least(rows) == IF rows = {} THEN 0
                     ELSE CHOOSE i \in rows : \A j \in rows : i <= j
  IN  Least(DecodeFound(d))

RECURSIVE DecodeRun(_)
DecodeRun(d) ==
  IF d.h < d.l THEN DecodeRun(DecodeStep(d, FirstFound(d))) ELSE d

\* rspamd_html_decode_entitles_inplace (s, len): the returned length and the
\* buffer afterwards
rspamd_html_decode_entitles_inplace(s, len) ==
  LET Returned(d) == [len |-> d.t, s |-> d.s, wend |-> d.wend]
  IN  Returned(DecodeRun(DecodeStart(s, len)))

----------------------------------------------------------------------------
(* Tag content parser *)

\* bsearch (tag, tag_defs, ..., tag_find): 0 when the name is not a tag
TagDefByName(name) ==
  IF \E i \in 1..Len(tag_defs) : tag_defs[i].name = LowerSeq(name)
  THEN CHOOSE i \in 1..Len(tag_defs) : tag_defs[i].name = LowerSeq(name)
  ELSE 0

\* tag->extra is empty, a struct rspamd_url (index in urls.recs),
\* a struct html_image or a struct html_block
NoColor == [valid |-> FALSE, r |-> 0, g |-> 0, b |-> 0, alpha |-> 0]

NoBlock ==
  [font_color |-> NoColor, background_color |-> NoColor, visible |-> TRUE,
   style |-> <<>>, class |-> <<>>]

NoImage == [src |-> <<>>, flags |-> {}, width |-> 0, height |-> 0]

NoExtra == [kind |-> "none", url |-> 0, bl |-> NoBlock, img |-> NoImage]

\* rspamd_mempool_alloc0 (pool, sizeof (*cur_tag)) and g_queue_new ()
NewTag ==
  [id |-> "Tag_UNKNOWN", flags |-> {}, name_start |-> -1, name |-> <<>>,
   params |-> <<>>, extra |-> NoExtra, parent |-> 0,
   content |-> -1, content_length |-> 0]

\* NEW_COMPONENT (comp_type)
NEW_COMPONENT(tag, comp_type) ==
  [tag EXCEPT !.params =
      Append(tag.params, [type |-> comp_type, has_start |-> FALSE, val |-> <<>>])]

\* rspamd_html_parse_tag_component: the component type added for the
\* attribute name begin .. end, "" when none is added
ComponentType(tag, raw) ==
  LET Named(p, len) ==
        IF len = 3
        THEN IF g_ascii_strncasecmp_eq(p, <<"s","r","c">>, len)
             THEN "HREF" ELSE ""
        ELSE IF len = 4
        THEN IF g_ascii_strncasecmp_eq(p, <<"h","r","e","f">>, len)
             THEN "HREF" ELSE ""
        ELSE IF tag.id = "Tag_IMG"
        THEN IF len = 5 /\ g_ascii_strncasecmp_eq(p, <<"w","i","d","t","h">>, len)
             THEN "WIDTH"
             ELSE IF len = 6 /\ g_ascii_strncasecmp_eq(p, <<"h","e","i","g","h","t">>, len)
             THEN "HEIGHT"
             ELSE IF g_ascii_strncasecmp_eq(p, <<"s","t","y","l","e">>, len)
             THEN "STYLE"
             ELSE ""
        ELSE IF "FL_BLOCK" \in tag.flags
        THEN IF len = 5
             THEN IF g_ascii_strncasecmp_eq(p, <<"c","o","l","o","r">>, len)
                  THEN "COLOR"
                  ELSE IF g_ascii_strncasecmp_eq(p, <<"s","t","y","l","e">>, len)
                  THEN "STYLE"
                  ELSE IF g_ascii_strncasecmp_eq(p, <<"c","l","a","s","s">>, len)
                  THEN "CLASS"
                  ELSE ""
             ELSE IF len = 7
             THEN IF g_ascii_strncasecmp_eq(p, <<"b","g","c","o","l","o","r">>, len)
                  THEN "BGCOLOR" ELSE ""
             ELSE ""
        ELSE ""
      Decoded(dr) == Named(dr.s, dr.len)
  IN  Decoded(rspamd_html_decode_entitles_inplace(raw, Len(raw)))

\* the component is reported but not pushed to tag->params
rspamd_html_parse_tag_component_unpushed(tag, raw) ==
  LET Typed(comp_type) ==
        IF comp_type = ""
        THEN [ret |-> FALSE, tag |-> tag]
        ELSE [ret |-> TRUE, tag |-> tag]
  IN  Typed(ComponentType(tag, raw))

\* rspamd_html_parse_tag_component (pool, begin, end, tag) for the bytes raw
\* of begin .. end: ret and the tag afterwards
rspamd_html_parse_tag_component(tag, raw) ==
  LET Typed(comp_type) ==
        IF comp_type = ""
        THEN [ret |-> FALSE, tag |-> tag]
        ELSE [ret |-> TRUE, tag |-> NEW_COMPONENT(tag, comp_type)]
  IN  Typed(ComponentType(tag, raw))

\* the "if (store)" block of parse_dqvalue, parse_sqvalue and parse_value:
\* r is [tag, flags, state, savep, abort]
StoreValue(r, inb, pos) ==
  IF r.savep = -1 THEN r
  ELSE IF Len(r.tag.params) = 0
  THEN [r EXCEPT !.abort = TRUE]   \* g_assert (comp != NULL)
  ELSE LET n == Len(r.tag.params)
           Decoded(dr) ==
             [r EXCEPT !.tag.params[n].has_start = TRUE,
                       !.tag.params[n].val = SubSeq(dr.s, 1, dr.len),
                       !.savep = -1]
           Value(raw) == Decoded(rspamd_html_decode_entitles_inplace(raw, Len(raw)))
       IN  Value(Span(inb, r.savep, pos))

\* rspamd_html_parse_tag_content for the byte at offset pos of inb; nx is the
\* byte at pos + 1 (the look-ahead of the "/>" tests).  savep = -1 is NULL.
rspamd_html_parse_tag_content(tag, flags, inb, pos, nx, statep, savep) ==
  LET ch == inb[pos + 1]
      r0 == [tag |-> tag, flags |-> flags, state |-> statep, savep |-> savep,
             abort |-> FALSE]
  IN  CASE statep = "parse_start" ->
            IF ~g_ascii_isalpha(ch) /\ ~g_ascii_isspace(ch)
            THEN [r0 EXCEPT !.flags = flags \cup {"BAD_ELEMENTS"},
                            !.state = "ignore_bad_tag",
                            !.tag.id = "-1",
                            !.tag.flags = tag.flags \cup {"FL_BROKEN"}]
            ELSE IF g_ascii_isalpha(ch)
            THEN [r0 EXCEPT !.state = "parse_name", !.tag.name_start = pos]
            ELSE r0
        [] statep = "parse_name" ->
            IF g_ascii_isspace(ch) \/ ch = ">" \/ ch = "/"
            THEN LET t1 == IF ch = "/"
                           THEN [tag EXCEPT !.flags = tag.flags \cup {"FL_CLOSED"}]
                           ELSE tag
                     Looked(nm, found) ==
                       IF found = 0
                       THEN [r0 EXCEPT
                               !.flags = flags \cup {"UNKNOWN_ELEMENTS"},
                               !.tag = [t1 EXCEPT !.id = "-1", !.name = nm],
                               !.state = "spaces_after_name"]
                       ELSE [r0 EXCEPT
                               !.tag = [t1 EXCEPT !.id = tag_defs[found].id,
                                           !.flags = tag_defs[found].flags,
                                           !.name = nm],
                               !.state = "spaces_after_name"]
                     Named(nm)   == Looked(nm, TagDefByName(nm))
                     Decoded(dr) == Named(SubSeq(dr.s, 1, dr.len))
                     Name(raw) ==
                       IF Len(raw) = 0
                       THEN [r0 EXCEPT !.flags = flags \cup {"BAD_ELEMENTS"},
                                       !.tag = [t1 EXCEPT !.id = "-1",
                                                   !.flags = t1.flags \cup {"FL_BROKEN"}],
                                       !.state = "ignore_bad_tag"]
                       ELSE Decoded(rspamd_html_decode_entitles_inplace(raw, Len(raw)))
                 IN  IF pos < tag.name_start
                     THEN [r0 EXCEPT !.abort = TRUE]   \* g_assert
                     ELSE Name(Span(inb, tag.name_start, pos))
            ELSE r0
        [] statep = "parse_attr_name" ->
            IF savep = -1
            THEN [r0 EXCEPT !.state = "ignore_bad_tag"]
            ELSE IF ch = "=" \/ g_ascii_isspace(ch) \/ ch = "/"
            THEN LET t1 == IF ch = "/"
                           THEN [tag EXCEPT !.flags = tag.flags \cup {"FL_CLOSED"}]
                           ELSE tag
                     st == IF ch = "=" THEN "parse_equal"
                           ELSE IF g_ascii_isspace(ch) THEN "spaces_before_eq"
                           ELSE statep
                     Component(pc) ==
                       [r0 EXCEPT !.tag = pc.tag,
                                  !.state = st,
                                  !.savep = IF pc.ret THEN savep ELSE -1]
                 IN  IF pos < savep
                     THEN [r0 EXCEPT !.abort = TRUE]   \* g_assert (end >= begin)
                     ELSE Component(rspamd_html_parse_tag_component(
                                      t1, Span(inb, savep, pos)))
            ELSE r0
        [] statep = "spaces_after_name" ->
            IF ~g_ascii_isspace(ch)
            THEN IF ch = "/"
                 THEN [r0 EXCEPT !.savep = pos,
                                 !.tag.flags = tag.flags \cup {"FL_CLOSED"}]
                 ELSE IF ch # ">"
                 THEN [r0 EXCEPT !.savep = pos, !.state = "parse_attr_name"]
                 ELSE [r0 EXCEPT !.savep = pos]
            ELSE r0
        [] statep = "spaces_before_eq" ->
            IF ch = "="
            THEN [r0 EXCEPT !.state = "parse_equal"]
            ELSE IF ~g_ascii_isspace(ch)
            THEN [r0 EXCEPT !.flags = flags \cup {"BAD_ELEMENTS"},
                            !.tag.flags = tag.flags \cup {"FL_BROKEN"},
                            !.state = "ignore_bad_tag"]
            ELSE r0
        [] statep = "spaces_after_eq" ->
            IF ch = "\""
            THEN [r0 EXCEPT !.state = "parse_start_dquote"]
            ELSE IF ch = "'"
            THEN [r0 EXCEPT !.state = "parse_start_squote"]
            ELSE IF ~g_ascii_isspace(ch)
            THEN [r0 EXCEPT !.savep = IF savep # -1 THEN pos ELSE savep,
                            !.state = "parse_value"]
            ELSE r0
        [] statep = "parse_equal" ->
            IF g_ascii_isspace(ch)
            THEN [r0 EXCEPT !.state = "spaces_after_eq"]
            ELSE IF ch = "\""
            THEN [r0 EXCEPT !.state = "parse_start_dquote"]
            ELSE IF ch = "'"
            THEN [r0 EXCEPT !.state = "parse_start_squote"]
            ELSE [r0 EXCEPT !.savep = IF savep # -1 THEN pos ELSE savep,
                            !.state = "parse_value"]
        [] statep = "parse_start_dquote" ->
            IF ch = "\""
            THEN [r0 EXCEPT !.state = "spaces_after_param"]
                 \* "savep = NULL" there assigns the parameter, not *savep
            ELSE [r0 EXCEPT !.savep = IF savep # -1 THEN pos ELSE savep,
                            !.state = "parse_dqvalue"]
        [] statep = "parse_start_squote" ->
            IF ch = "'"
            THEN [r0 EXCEPT !.state = "spaces_after_param"]
            ELSE [r0 EXCEPT !.savep = IF savep # -1 THEN pos ELSE savep,
                            !.state = "parse_sqvalue"]
        [] statep = "parse_dqvalue" ->
            IF ch = "\""
            THEN StoreValue([r0 EXCEPT !.state = "parse_end_dquote"], inb, pos)
            ELSE r0
        [] statep = "parse_sqvalue" ->
            IF ch = "'"
            THEN StoreValue([r0 EXCEPT !.state = "parse_end_squote"], inb, pos)
            ELSE r0
        [] statep = "parse_value" ->
            IF ch = "/" /\ nx = ">"
            THEN StoreValue([r0 EXCEPT !.tag.flags = tag.flags \cup {"FL_CLOSED"}],
                            inb, pos)
            ELSE IF g_ascii_isspace(ch) \/ ch = ">"
            THEN StoreValue([r0 EXCEPT !.state = "spaces_after_param"], inb, pos)
            ELSE r0
        [] statep \in {"parse_end_dquote", "parse_end_squote"} ->
            IF g_ascii_isspace(ch)
            THEN [r0 EXCEPT !.state = "spaces_after_param"]
            ELSE IF ch = "/" /\ nx = ">"
            THEN [r0 EXCEPT !.tag.flags = tag.flags \cup {"FL_CLOSED"}]
            ELSE r0
        [] statep = "spaces_after_param" ->
            IF ~g_ascii_isspace(ch)
            THEN [r0 EXCEPT !.tag.flags = IF ch = "/" /\ nx = ">"
                                          THEN tag.flags \cup {"FL_CLOSED"}
                                          ELSE tag.flags,
                            !.state = "parse_attr_name",
                            !.savep = pos]
            ELSE r0
        [] OTHER -> r0

----------------------------------------------------------------------------
(* Tag tree *)

\* scaled-down value of max_tags (8192 in the source): the number of tags
\* after which no tree node is created
max_tags == 4

\* the cap with the comparison off by one
BelowCapInclusive(total_tags) == total_tags <= max_tags

\* hc->total_tags < max_tags: the test that guards each g_node_new (tag)
BelowCap(total_tags) == total_tags < max_tags

\* g_node_new (data): a node is [data, parent, alive]; data = 0 is the NULL
\* data of the root, parent = 0 is no parent
g_node_new(data) == [data |-> data, parent |-> 0, alive |-> TRUE]

\* node->prev: the sibling appended just before n (0: none); children are
\* appended in allocation order
g_node_prev(ns, n) ==
  LET sib == {m \in 1..(n - 1) : ns[m].alive /\ ns[m].parent = ns[n].parent}
  IN  IF n = 0 \/ sib = {} THEN 0 ELSE CHOOSE m \in sib : \A k \in sib : k <= m

RECURSIVE FindOpenAncestor(_, _, _, _)
\* the while loop of rspamd_html_check_balance: the nearest node from cur
\* upwards whose tag has this id and is not FL_CLOSED (0: none)
FindOpenAncestor(ns, tgs, cur, id) ==
  IF cur = 0 \/ ns[cur].data = 0 THEN 0
  ELSE IF tgs[ns[cur].data].id = id /\ "FL_CLOSED" \notin tgs[ns[cur].data].flags
  THEN cur
  ELSE FindOpenAncestor(ns, tgs, ns[cur].parent, id)

\* the balance check with the cursor left on the closing node it destroys
rspamd_html_check_balance_dangling(w, node) ==
  LET arg == w.tags[w.nodes[node].data]
      cur == FindOpenAncestor(w.nodes, w.tags, w.nodes[node].parent, arg.id)
  IN  IF "FL_CLOSING" \in arg.flags
      THEN IF cur # 0
           THEN [ret |-> TRUE,
                 w |-> [w EXCEPT
                    !.tags[w.nodes[cur].data].flags = @ \cup {"FL_CLOSED"},
                    !.nodes[node].alive = FALSE,
                    !.doc.cur_level = node,
                    !.trace.matched = Append(@, <<w.nodes[node].data, w.nodes[cur].data>>)]]
           ELSE [ret |-> FALSE, w |-> w]
      ELSE [ret |-> TRUE, w |-> w]

\* the balance check with the cursor left on the ancestor that was closed
rspamd_html_check_balance_stay(w, node) ==
  LET arg == w.tags[w.nodes[node].data]
      cur == FindOpenAncestor(w.nodes, w.tags, w.nodes[node].parent, arg.id)
  IN  IF "FL_CLOSING" \in arg.flags
      THEN IF cur # 0
           THEN [ret |-> TRUE,
                 w |-> [w EXCEPT
                    !.tags[w.nodes[cur].data].flags = @ \cup {"FL_CLOSED"},
                    !.nodes[node].alive = FALSE,
                    !.doc.cur_level = cur,
                    !.trace.matched = Append(@, <<w.nodes[node].data, w.nodes[cur].data>>)]]
           ELSE [ret |-> FALSE, w |-> w]
      ELSE [ret |-> TRUE, w |-> w]

\* the balance check with the search started one level too high
rspamd_html_check_balance_above(w, node) ==
  LET arg == w.tags[w.nodes[node].data]
      up  == w.nodes[node].parent
      cur == FindOpenAncestor(w.nodes, w.tags, w.nodes[up].parent, arg.id)
  IN  IF "FL_CLOSING" \in arg.flags
      THEN IF cur # 0
           THEN [ret |-> TRUE,
                 w |-> [w EXCEPT
                    !.tags[w.nodes[cur].data].flags = @ \cup {"FL_CLOSED"},
                    !.nodes[node].alive = FALSE,
                    !.doc.cur_level = w.nodes[cur].parent,
                    !.trace.matched = Append(@, <<w.nodes[node].data, w.nodes[cur].data>>)]]
           ELSE [ret |-> FALSE, w |-> w]
      ELSE [ret |-> TRUE, w |-> w]

\* rspamd_html_check_balance (node, &cur_level) on the world w
rspamd_html_check_balance(w, node) ==
  LET arg == w.tags[w.nodes[node].data]
      cur == FindOpenAncestor(w.nodes, w.tags, w.nodes[node].parent, arg.id)
  IN  IF "FL_CLOSING" \in arg.flags
      THEN IF cur # 0
           THEN [ret |-> TRUE,
                 w |-> [w EXCEPT
                    !.tags[w.nodes[cur].data].flags = @ \cup {"FL_CLOSED"},
                    !.nodes[node].alive = FALSE,
                    !.doc.cur_level = w.nodes[cur].parent,
                    !.trace.matched = Append(@, <<w.nodes[node].data, w.nodes[cur].data>>)]]
           ELSE [ret |-> FALSE, w |-> w]
      ELSE [ret |-> TRUE, w |-> w]

\* g_node_new (tag) and g_node_append (parent, nnode), counted in trace
AppendNode(w, parent, tag) ==
  [w EXCEPT !.nodes = Append(@, [g_node_new(tag) EXCEPT !.parent = parent]),
            !.trace.created = @ + 1]

\* the new tag would be nested inside the tag of its own name
BadNestingParent_inside(w, cl, parent) == cl

\* tag->parent = parent->parent: the node that a tag opened inside an
\* unclosed tag of its own name is appended to
BadNestingParent(w, cl, parent) == w.tags[parent].parent

\* rspamd_html_process_tag (pool, hc, tag, &cur_level, &balanced) for
\* tag = doc.cur_tag
rspamd_html_process_tag(w0) ==
  LET t == w0.doc.cur_tag
      Closing(w, cl) ==
        LET Balanced(cb) ==
              IF ~cb.ret
              THEN [cb.w EXCEPT !.hc.flags = @ \cup {"UNBALANCED"},
                                !.doc.balanced = FALSE,
                                !.hc.total_tags = @ + 1]
              ELSE [cb.w EXCEPT !.doc.balanced = TRUE,
                                !.hc.total_tags = @ + 1]
            Linked(w1) == Balanced(rspamd_html_check_balance(w1, Len(w1.nodes)))
        IN  IF cl = 0
            THEN [ret |-> FALSE, w |-> w]
            ELSE IF BelowCap(w.hc.total_tags)
            THEN [ret |-> TRUE, w |-> Linked(AppendNode(w, cl, t))]
            ELSE [ret |-> TRUE, w |-> w]
      Opening(w1, cl, parent) ==
        LET SameName(gp) ==
              LET Moved(w2) ==
                    IF BelowCap(w2.hc.total_tags)
                    THEN [AppendNode(w2, gp, t) EXCEPT
                            !.doc.cur_level = Len(w2.nodes) + 1,
                            !.hc.total_tags = @ + 1]
                    ELSE w2
              IN  [ret |-> TRUE,
                   w |-> Moved([w1 EXCEPT !.hc.flags = @ \cup {"UNBALANCED"},
                                          !.doc.balanced = FALSE,
                                          !.tags[t].parent = gp])]
            Ignored(w3) ==
              IF w3.tags[t].flags \cap {"CM_HEAD", "FL_IGNORE"} # {}
              THEN [ret |-> FALSE,
                    w |-> [w3 EXCEPT !.tags[t].flags = @ \cup {"FL_IGNORE"}]]
              ELSE [ret |-> TRUE, w |-> w3]
            Child(w2) ==
              Ignored(IF BelowCap(w2.hc.total_tags)
                      THEN [AppendNode(w2, cl, t) EXCEPT
                              !.doc.cur_level =
                                 IF "FL_CLOSED" \notin w2.tags[t].flags
                                 THEN Len(w2.nodes) + 1 ELSE @,
                              !.hc.total_tags = @ + 1]
                      ELSE w2)
        IN  IF /\ parent # 0
               /\ "FL_CLOSED" \notin w1.tags[t].flags
               /\ "FL_BLOCK" \notin w1.tags[parent].flags
               /\ w1.tags[parent].id = w1.tags[t].id
            THEN \* something like <a>bla<a>foo...
                 SameName(BadNestingParent(w1, cl, parent))
            ELSE Child(IF parent # 0
                       THEN [w1 EXCEPT !.tags[parent].content_length =
                                          @ + w1.tags[t].content_length]
                       ELSE w1)
      Element(w, cl, parent) ==
        IF "CM_INLINE" \notin w.tags[t].flags
        THEN IF w.tags[t].flags \cap {"FL_CLOSING", "FL_CLOSED"} # {}
             THEN Closing(w, cl)
             ELSE Opening(IF parent # 0 /\ "FL_IGNORE" \in w.tags[parent].flags
                          THEN [w EXCEPT !.tags[t].flags = @ \cup {"FL_IGNORE"}]
                          ELSE w,
                          cl, parent)
        ELSE IF parent # 0 /\ w.tags[parent].flags \cap {"CM_HEAD", "FL_IGNORE"} # {}
             THEN [ret |-> FALSE, w |-> [w EXCEPT !.tags[t].flags = @ \cup {"FL_IGNORE"}]]
             ELSE [ret |-> TRUE, w |-> w]
      Counted(wb) ==
        IF wb.tags[t].id = "-1"
        THEN [ret |-> FALSE, w |-> [wb EXCEPT !.hc.total_tags = @ + 1]]
        ELSE Element([wb EXCEPT !.tags[t].parent = wb.doc.cur_level],
                     wb.doc.cur_level, wb.nodes[wb.doc.cur_level].data)
      Rooted(wa) ==
        Counted(IF wa.hc.total_tags > max_tags
                THEN [wa EXCEPT !.hc.flags = @ \cup {"TOO_MANY_TAGS"}]
                ELSE wa)
  IN  Rooted(IF w0.hc.html_tags = 0
             THEN [w0 EXCEPT !.nodes = Append(@, g_node_new(0)),
                             !.doc.cur_level = Len(w0.nodes) + 1,
                             !.hc.html_tags = Len(w0.nodes) + 1]
             ELSE w0)

----------------------------------------------------------------------------
(* URL collaborators (url.c) and URL extraction *)

HasPrefixAt(s, i, pre) ==
  /\ i + Len(pre) - 1 <= Len(s)
  /\ \A k \in 1..Len(pre) : g_ascii_tolower(s[i + k - 1]) = pre[k]

IsHostChar(c) == g_ascii_isalpha(c) \/ g_ascii_isdigit(c) \/ c \in {".", "-"}

RECURSIVE HostRun(_, _)
\* number of host bytes of s from index i
HostRun(s, i) ==
  IF i <= Len(s) /\ IsHostChar(s[i]) THEN 1 + HostRun(s, i + 1) ELSE 0

RECURSIVE IndexOf(_, _, _)
\* first index >= i of byte c in s, 0 when absent (memchr)
IndexOf(s, c, i) ==
  IF i > Len(s) THEN 0
  ELSE IF s[i] = c THEN i
  ELSE IndexOf(s, c, i + 1)

\* start index of the suffix of host made of its last two labels
TldStart(host) ==
  LET dots == {i \in 1..Len(host) : host[i] = "."}
      last == IF dots = {} THEN 0 ELSE CHOOSE i \in dots : \A j \in dots : j <= i
      prev == {i \in dots : i < last}
  IN  IF prev = {} THEN 1 ELSE 1 + (CHOOSE i \in prev : \A j \in prev : j <= i)

\* struct rspamd_url as rspamd_url_parse fills it: http://host... and
\* mailto:user@host are the recognised forms, the tld is the last two labels
\* of the host
rspamd_url_parse(str) ==
  LET http   == HasPrefixAt(str, 1, <<"h","t","t","p",":","/","/">>)
      mailto == HasPrefixAt(str, 1, <<"m","a","i","l","t","o",":">>)
      Parsed(host, q) ==
        [ok |-> TRUE,
         url |-> [string |-> str,
                  host |-> host,
                  tld |-> SubSeq(host, TldStart(host), Len(host)),
                  protocol |-> IF http THEN "http" ELSE "mailto",
                  query |-> IF q = 0 THEN <<>> ELSE SubSeq(str, q + 1, Len(str)),
                  flags |-> {}, count |-> 0, phished_url |-> 0,
                  tags |-> <<>>]]
      Host(hs, hl) ==
        IF hs = 0 \/ hl = 0
        THEN [ok |-> FALSE]
        ELSE Parsed(SubSeq(str, hs, hs + hl - 1), IndexOf(str, "?", Max(hs, 1)))
      Started(hs) == Host(hs, IF hs = 0 THEN 0 ELSE HostRun(str, hs))
      User(at)    == Started(IF http THEN 8 ELSE IF mailto /\ at # 0 THEN at + 1 ELSE 0)
  IN  User(IndexOf(str, "@", 8))

RECURSIVE UrlEnd(_, _)
\* index after the last byte of the URL that starts at i: it runs up to the
\* next space or the end of the text
UrlEnd(s, i) ==
  IF i > Len(s) \/ g_ascii_isspace(s[i]) THEN i ELSE UrlEnd(s, i + 1)

\* rspamd_url_find (pool, text, len, &url_str, FALSE, &url_pos, NULL): the
\* first http:// URL of the text
rspamd_url_find(text) ==
  LET First(starts) ==
        LET At(st) == [found |-> TRUE,
                       url_str |-> SubSeq(text, st, UrlEnd(text, st) - 1),
                       url_pos |-> st - 1]
        IN  IF starts = {}
            THEN [found |-> FALSE, url_str |-> <<>>, url_pos |-> 0]
            ELSE At(CHOOSE i \in starts : \A j \in starts : i <= j)
  IN  First({i \in 1..Len(text) :
                /\ HasPrefixAt(text, i, <<"h","t","t","p",":","/","/">>)
                /\ HostRun(text, i + 7) > 0})

RECURSIVE LeadSpaces(_, _)
LeadSpaces(s, i) ==
  IF i <= Len(s) /\ g_ascii_isspace(s[i]) THEN 1 + LeadSpaces(s, i + 1) ELSE 0

RECURSIVE TrailSpaces(_, _)
TrailSpaces(s, i) ==
  IF i >= 1 /\ g_ascii_isspace(s[i]) THEN 1 + TrailSpaces(s, i - 1) ELSE 0

RECURSIVE UrlEncode(_, _)
\* the copy loop of rspamd_html_process_url from index i
UrlEncode(s, i) ==
  IF i > Len(s) THEN <<>>
  ELSE IF s[i] \in {"\r", "\n"} THEN UrlEncode(s, i + 1)
  ELSE IF Ord(s[i]) < 128 /\ ~g_ascii_isgraph(s[i])
  THEN <<"%", HexTab[((Ord(s[i]) \div 16) % 16) + 1], HexTab[(Ord(s[i]) % 16) + 1]>>
       \o UrlEncode(s, i + 1)
  ELSE <<s[i]>> \o UrlEncode(s, i + 1)

\* every schemeless span gets http://
UrlPrefix_slashes(s, no_prefix) ==
  IF ~no_prefix THEN <<>> ELSE <<"h","t","t","p",":","/","/">>

\* the bytes written before the span: "http:" for the //bla case, "http://"
\* for another span without prefix
UrlPrefix(s, no_prefix) ==
  IF ~no_prefix THEN <<>>
  ELSE IF Len(s) > 2 /\ s[1] = "/" /\ s[2] = "/"
  THEN <<"h","t","t","p",":">>
  ELSE <<"h","t","t","p",":","/","/">>

\* rspamd_html_process_url (pool, start, len, comp): ok is FALSE for NULL;
\* comp_val is what comp->start / comp->len describe afterwards.
\* rspamd_normalise_unicode_inplace leaves ASCII text as it is.
rspamd_html_process_url(val) ==
  LET Trimmed(s) ==
        LET has_bad_chars ==
              \E i \in 1..Len(s) :
                  /\ s[i] \notin {"\r", "\n"}
                  /\ Ord(s[i]) < 128 /\ ~g_ascii_isgraph(s[i])
            Parsed(pr, no_prefix) ==
              IF pr.ok
              THEN [ok |-> TRUE,
                    url |-> [pr.url EXCEPT !.flags =
                                (IF has_bad_chars THEN {"OBSCURED"} ELSE {})
                                \cup (IF no_prefix THEN {"SCHEMALESS"} ELSE {})],
                    comp_val |-> pr.url.string]
              ELSE [ok |-> FALSE, comp_val |-> s]
            Prefixed(no_prefix) ==
              Parsed(rspamd_url_parse(
                       UrlPrefix(s, no_prefix) \o UrlEncode(s, 1)),
                     no_prefix)
        IN  Prefixed(IndexOf(s, ":", 1) = 0)
      Led(s1) == Trimmed(SubSeq(s1, 1, Len(s1) - TrailSpaces(s1, Len(s1))))
  IN  Led(SubSeq(val, LeadSpaces(val, 1) + 1, Len(val)))

\* index of the first HREF component with len > 0 (0: none)
FirstHref(tag) ==
  LET hs == {i \in 1..Len(tag.params) :
                tag.params[i].type = "HREF" /\ Len(tag.params[i].val) > 0}
  IN  IF hs = {} THEN 0 ELSE CHOOSE i \in hs : \A j \in hs : i <= j

\* rspamd_html_process_url_tag (pool, tag) for tag t: the new struct
\* rspamd_url is appended to urls.recs; url = 0 is NULL
rspamd_html_process_url_tag(w, t) ==
  LET u == Len(w.urls.recs) + 1
      Href(i) ==
        LET Stored(r, w1) ==
              IF ~r.ok THEN [url |-> 0, w |-> w1]
              ELSE [url |-> u,
                    w |-> [w1 EXCEPT !.urls.recs = Append(@, r.url),
                                     !.tags[t].extra =
                                        IF @.kind = "none"
                                        THEN [@ EXCEPT !.kind = "url", !.url = u]
                                        ELSE @]]
            Processed(r) ==
              Stored(r, [w EXCEPT !.tags[t].params[i].val = r.comp_val,
                                  !.tags[t].params[i].has_start = TRUE])
        IN  IF i = 0 THEN [url |-> 0, w |-> w]
            ELSE Processed(rspamd_html_process_url(w.tags[t].params[i].val))
  IN  Href(FirstHref(w.tags[t]))

\* g_hash_table_lookup (tbl, url): the record of the table equal to url
\* (0: none); tbl is a set of indexes of urls.recs
TableLookup(recs, tbl, url) ==
  LET eq == {k \in tbl : recs[k].string = url.string}
  IN  IF eq = {} THEN 0 ELSE CHOOSE k \in eq : TRUE

TableOf(url) == IF url.protocol = "mailto" THEN "emails" ELSE "urls"

\* the record would be inserted without a look-up
LookupOrInsert_always(w, u) ==
  [inserted |-> TRUE,
   w |-> [w EXCEPT !.urls[TableOf(w.urls.recs[u])] = @ \cup {u},
                   !.trace.regs = @ + 1]]

\* lookup, then insert or count ++ (the pattern used for every table).
\* The result says whether u was inserted.
LookupOrInsert(w, u) ==
  LET Found(tb, turl) ==
        IF turl = 0
        THEN [inserted |-> TRUE, w |-> [w EXCEPT !.urls[tb] = @ \cup {u},
                                                 !.trace.regs = @ + 1]]
        ELSE [inserted |-> FALSE,
              w |-> [w EXCEPT !.urls.recs[turl].count = @ + 1,
                              !.trace.regs = @ + 1]]
      Keyed(tb) == Found(tb, TableLookup(w.urls.recs, w.urls[tb], w.urls.recs[u]))
  IN  Keyed(TableOf(w.urls.recs[u]))

\* rspamd_process_html_url (pool, url, urls, emails): a URL found in the
\* query of url is added to the tables
rspamd_process_html_url(w, u) ==
  LET url == w.urls.recs[u]
      Parsed(pr) ==
        IF pr.ok
        THEN LookupOrInsert(
               [w EXCEPT !.urls.recs =
                   Append(@, [pr.url EXCEPT !.flags = url.flags \cap {"OBSCURED"}])],
               Len(w.urls.recs) + 1).w
        ELSE w
      Found(f) == IF f.found THEN Parsed(rspamd_url_parse(f.url_str)) ELSE w
  IN  IF Len(url.query) > 0 THEN Found(rspamd_url_find(url.query)) ELSE w

----------------------------------------------------------------------------
(* Phishing / display-mismatch detector *)

RECURSIVE SkipTrailingDots(_, _)
SkipTrailingDots(t, p) ==
  IF p > 0 /\ t[p + 1] = "." THEN SkipTrailingDots(t, p - 1) ELSE p

RECURSIVE CommonSuffix(_, _, _, _)
\* the comparing loop of rspamd_url_is_subdomain: <<p1, p2>> when it stops
CommonSuffix(t1, t2, p1, p2) ==
  IF p1 > 0 /\ p2 > 0 /\ t1[p1 + 1] = t2[p2 + 1]
  THEN CommonSuffix(t1, t2, p1 - 1, p2 - 1)
  ELSE <<p1, p2>>

\* rspamd_url_is_subdomain (t1, t2) for non-empty tokens
rspamd_url_is_subdomain(t1, t2) ==
  LET s1 == SkipTrailingDots(t1, Len(t1) - 1)
      s2 == SkipTrailingDots(t2, Len(t2) - 1)
      pp == CommonSuffix(t1, t2, s1, s2)
      p1 == pp[1]
      p2 == pp[2]
  IN  IF p2 = 0
      THEN p1 # 0 /\ t1[p1] = "."
      ELSE IF p1 = 0
      THEN p2 # 0 /\ t2[p2] = "."
      ELSE FALSE

\* rspamd_ftok_casecmp (a, b) != 0
ftok_differs(a, b) == LowerSeq(a) # LowerSeq(b)

\* the comparison without its test of the TLDs
IsPhishedPairHostsOnly(href_url, text_url) ==
  /\ ftok_differs(text_url.host, href_url.host)
  /\ ~rspamd_url_is_subdomain(text_url.tld, href_url.tld)

\* the comparison of rspamd_html_url_is_phished once the displayed URL is
\* parsed: TRUE when the href URL is to be flagged.  No host of the model
\* has an xn-- label, so the tokens are compared as they are.
IsPhishedPair(href_url, text_url) ==
  /\ ftok_differs(text_url.host, href_url.host)
  /\ ftok_differs(text_url.tld, href_url.tld)
  /\ ~rspamd_url_is_subdomain(text_url.tld, href_url.tld)

\* the tag would carry the TLD of the displayed URL
phished_tld_displayed(href_url, text_url) == text_url.tld

\* phished_tld.begin = href_tok.begin; phished_tld.len = href_tok.len: the
\* value of the "phishing" tag
phished_tld(href_url, text_url) == href_url.tld

\* rspamd_html_url_is_phished (pool, href_url, url_text, len, &url_found,
\* &ptext_url) for href_url = recs[h]: the records afterwards, url_found
\* and the index of the displayed URL (0: NULL)
rspamd_html_url_is_phished(recs, h, text) ==
  LET d    == Len(recs) + 1
      none == [recs |-> recs, url_found |-> FALSE, text_url |-> 0]
      Parsed(pr) ==
        IF ~pr.ok THEN none
        ELSE IF IsPhishedPair(recs[h], pr.url)
        THEN [recs |-> Append([recs EXCEPT ![h].flags = @ \cup {"PHISHED"},
                                           ![h].phished_url = d],
                              [pr.url EXCEPT
                                 !.tags = Append(@, [name |-> "phishing",
                                                     value |-> phished_tld(recs[h],
                                                                           pr.url)]),
                                 !.flags = @ \cup {"HTML_DISPLAYED"}]),
              url_found |-> TRUE, text_url |-> d]
        ELSE [recs |-> Append(recs, pr.url), url_found |-> TRUE, text_url |-> d]
      Found(txt, f) ==
        IF ~(Len(txt) > 4 /\ f.found) THEN none
        ELSE IF f.url_pos > 0
                /\ \E i \in 1..f.url_pos : ~g_ascii_isspace(txt[i])
        THEN none
        ELSE Parsed(rspamd_url_parse(f.url_str))
      Trimmed(txt) == Found(txt, rspamd_url_find(txt))
  IN  Trimmed(SubSeq(text, LeadSpaces(text, 1) + 1, Len(text)))

\* rspamd_html_check_displayed_url (pool, exceptions, urls, emails, dest,
\* target_tbl, href_offset, url)
rspamd_html_check_displayed_url(w, href_offset, url) ==
  LET Displayed(w2, text_url) ==
        LET Stored(tb, turl) ==
              IF turl # 0
              THEN [w2 EXCEPT !.urls.recs[turl].flags =
                                 IF "FROM_TEXT" \in @
                                 THEN (@ \cup {"HTML_DISPLAYED"}) \ {"FROM_TEXT"}
                                 ELSE @,
                              !.urls.recs[turl].count = @ + 1,
                              !.trace.regs = @ + 1]
              ELSE [w2 EXCEPT !.urls[tb] = @ \cup {text_url},
                              !.trace.regs = @ + 1]
            Keyed(tb) == Stored(tb, TableLookup(w2.urls.recs, w2.urls[tb],
                                                w2.urls.recs[text_url]))
        IN  IF text_url = 0 THEN w2
            ELSE Keyed(TableOf(w2.urls.recs[text_url]))
      Checked(r) ==
        Displayed([w EXCEPT !.urls.recs = r.recs,
                            !.trace.checked = @ \cup {url},
                            !.doc.exceptions =
                               IF r.url_found
                               THEN <<[pos |-> href_offset,
                                       len |-> Len(w.doc.dest) - href_offset,
                                       type |-> "URL"]>> \o @
                               ELSE @],
                  r.text_url)
  IN  IF href_offset <= 0 THEN w
      ELSE Checked(rspamd_html_url_is_phished(w.urls.recs, url,
                      SubSeq(w.doc.dest, href_offset + 1, Len(w.doc.dest))))

----------------------------------------------------------------------------
(* Colours, styles, blocks and images *)

\* html_colornames (html_colors.h): the rows used here
html_colornames ==
  <<[name |-> <<"r","e","d">>, r |-> 255, g |-> 0, b |-> 0],
    [name |-> <<"w","h","i","t","e">>, r |-> 255, g |-> 255, b |-> 255],
    [name |-> <<"b","l","a","c","k">>, r |-> 0, g |-> 0, b |-> 0]>>

\* struct html_color from its 32-bit d.val (little-endian b, g, r, alpha)
ColorOfVal(val) ==
  [valid |-> TRUE, b |-> val % 256, g |-> (val \div 256) % 256,
   r |-> (val \div 65536) % 256, alpha |-> (val \div 16777216) % 256]

\* rspamd_strtoul (c, len, &v): decimal digits only
rspamd_strtoul(str) ==
  IF \A i \in 1..Len(str) : g_ascii_isdigit(str[i])
  THEN [ok |-> TRUE, val |-> DigitsValue(str, 1, Len(str), 10, 0)]
  ELSE [ok |-> FALSE, val |-> 0]

RECURSIVE RgbRun(_, _)
\* the while loop of the rgb()/rgba() branch of rspamd_html_process_color;
\* m is [p, c, state, next_state, r, g, b, valid, stop]
RgbRun(line, m) ==
  IF m.stop \/ m.p >= Len(line) THEN m
  ELSE LET ch  == line[m.p + 1]
           num == rspamd_strtoul(Span(line, m.c, m.p))
       IN  RgbRun(line,
             CASE m.state = "obrace" ->
                    IF ch = "("
                    THEN [m EXCEPT !.p = m.p + 1, !.state = "skip_spaces",
                                   !.next_state = "num1"]
                    ELSE IF g_ascii_isspace(ch)
                    THEN [m EXCEPT !.state = "skip_spaces", !.next_state = "obrace"]
                    ELSE [m EXCEPT !.stop = TRUE]
               [] m.state = "num1" ->
                    IF ch = ","
                    THEN IF ~num.ok THEN [m EXCEPT !.stop = TRUE]
                         ELSE [m EXCEPT !.r = num.val, !.p = m.p + 1,
                                        !.state = "skip_spaces", !.next_state = "num2"]
                    ELSE IF ~g_ascii_isdigit(ch) THEN [m EXCEPT !.stop = TRUE]
                    ELSE [m EXCEPT !.p = m.p + 1]
               [] m.state = "num2" ->
                    IF ch = ","
                    THEN IF ~num.ok THEN [m EXCEPT !.stop = TRUE]
                         ELSE [m EXCEPT !.g = num.val, !.p = m.p + 1,
                                        !.state = "skip_spaces", !.next_state = "num3"]
                    ELSE IF ~g_ascii_isdigit(ch) THEN [m EXCEPT !.stop = TRUE]
                    ELSE [m EXCEPT !.p = m.p + 1]
               [] m.state = "num3" ->
                    IF ch = ","
                    THEN IF ~num.ok THEN [m EXCEPT !.stop = TRUE]
                         ELSE [m EXCEPT !.b = num.val, !.valid = TRUE, !.stop = TRUE]
                    ELSE IF ~g_ascii_isdigit(ch) THEN [m EXCEPT !.stop = TRUE]
                    ELSE [m EXCEPT !.p = m.p + 1]
               [] OTHER ->
                    IF ~g_ascii_isspace(ch)
                    THEN [m EXCEPT !.c = m.p, !.state = m.next_state]
                    ELSE [m EXCEPT !.p = m.p + 1])

\* rspamd_html_process_color (line, len, cl): the value of *cl afterwards
rspamd_html_process_color(line) ==
  LET hexbuf == SubSeq(line, 2, Min(Len(line), 7))
      named  == {i \in 1..Len(html_colornames) :
                    LowerSeq(html_colornames[i].name) = LowerSeq(line)}
      p0     == IF Len(line) > 3 /\ line[4] = "a" THEN 4 ELSE 3
      Rgb(m)     == IF m.valid
                    THEN ColorOfVal(m.b + (m.g * 256) + (m.r * 65536))
                    ELSE NoColor
      Name(hits) == IF hits # {}
                    THEN [valid |-> TRUE,
                          r |-> html_colornames[CHOOSE i \in hits : TRUE].r,
                          g |-> html_colornames[CHOOSE i \in hits : TRUE].g,
                          b |-> html_colornames[CHOOSE i \in hits : TRUE].b,
                          alpha |-> 255]
                    ELSE NoColor
  IN  IF line[1] = "#"
      THEN ColorOfVal(strtoul(hexbuf, 16).val)
      ELSE IF Len(line) > 4 /\ LowerSeq(SubSeq(line, 1, 3)) = <<"r","g","b">>
      THEN Rgb(RgbRun(line, [p |-> p0, c |-> p0, state |-> "skip_spaces",
                             next_state |-> "obrace", r |-> 0, g |-> 0, b |-> 0,
                             valid |-> FALSE, stop |-> FALSE]))
      ELSE Name(named)

\* rspamd_substring_search_caseless (s, len, pat, plen) != -1
ContainsCaseless(s, pat) ==
  \E i \in 1..(Len(s) - Len(pat) + 1) :
      LowerSeq(SubSeq(s, i, i + Len(pat) - 1)) = LowerSeq(pat)

\* the "key && klen && p - c > 0" block of read_value
StyleApply(bl, key, val) ==
  IF Len(key) = 0 \/ Len(val) = 0 THEN bl
  ELSE IF \/ g_ascii_strcasecmp_eq(key, <<"c","o","l","o","r">>)
          \/ g_ascii_strcasecmp_eq(key, <<"f","o","n","t","-","c","o","l","o","r">>)
  THEN [bl EXCEPT !.font_color = rspamd_html_process_color(val)]
  ELSE IF \/ g_ascii_strcasecmp_eq(key,
               <<"b","a","c","k","g","r","o","u","n","d","-","c","o","l","o","r">>)
          \/ g_ascii_strcasecmp_eq(key, <<"b","a","c","k","g","r","o","u","n","d">>)
  THEN [bl EXCEPT !.background_color = rspamd_html_process_color(val)]
  ELSE IF g_ascii_strcasecmp_eq(key, <<"d","i","s","p","l","a","y">>)
  THEN IF Len(val) >= 4 /\ ContainsCaseless(val, <<"n","o","n","e">>)
       THEN [bl EXCEPT !.visible = FALSE]
       ELSE bl
  ELSE bl

RECURSIVE StyleRun(_, _, _)
\* the while (p <= end) loop of rspamd_html_process_style;
\* m is [p, c, key, klen, state, next_state], key = -1 is NULL
StyleRun(bl, style, m) ==
  IF m.p > Len(style) THEN bl
  ELSE LET atend == m.p = Len(style)
           ch    == style[m.p + 1]
       IN  CASE m.state = "read_key" ->
                  IF atend \/ ch = ":"
                  THEN StyleRun(bl, style,
                         [m EXCEPT !.key = m.c, !.klen = m.p - m.c,
                                   !.state = "skip_spaces", !.next_state = "read_value",
                                   !.p = m.p + 1])
                  ELSE IF g_ascii_isspace(ch)
                  THEN StyleRun(bl, style,
                         [m EXCEPT !.key = m.c, !.klen = m.p - m.c,
                                   !.state = "skip_spaces", !.next_state = "read_colon",
                                   !.p = m.p + 1])
                  ELSE StyleRun(bl, style, [m EXCEPT !.p = m.p + 1])
             [] m.state = "read_colon" ->
                  IF atend \/ ch = ":"
                  THEN StyleRun(bl, style,
                         [m EXCEPT !.state = "skip_spaces", !.next_state = "read_value",
                                   !.p = m.p + 1])
                  ELSE StyleRun(bl, style, [m EXCEPT !.p = m.p + 1])
             [] m.state = "read_value" ->
                  IF atend \/ ch = ";"
                  THEN StyleRun(
                         IF m.key # -1 /\ m.klen # 0 /\ m.p - m.c > 0
                         THEN StyleApply(bl, Span(style, m.key, m.key + m.klen),
                                         Span(style, m.c, m.p))
                         ELSE bl,
                         style,
                         [m EXCEPT !.key = -1, !.klen = 0,
                                   !.state = "skip_spaces", !.next_state = "read_key",
                                   !.p = m.p + 1])
                  ELSE StyleRun(bl, style, [m EXCEPT !.p = m.p + 1])
             [] OTHER ->
                  IF ~atend /\ ~g_ascii_isspace(ch)
                  THEN StyleRun(bl, style,
                         [m EXCEPT !.c = m.p, !.state = m.next_state])
                  ELSE StyleRun(bl, style, [m EXCEPT !.p = m.p + 1])

\* rspamd_html_process_style (pool, bl, hc, style, len)
rspamd_html_process_style(bl, style) ==
  StyleRun(bl, style, [p |-> 0, c |-> 0, key |-> -1, klen |-> 0,
                       state |-> "skip_spaces", next_state |-> "read_key"])

RECURSIVE BlockComponents(_, _, _, _)
\* the while (cur) loop of rspamd_html_process_block_tag from component i:
\* the block and hc->bgcolor afterwards
BlockComponents(tag, i, bl, bgcolor) ==
  IF i > Len(tag.params) THEN [bl |-> bl, bgcolor |-> bgcolor]
  ELSE LET comp == tag.params[i]
           Coloured(col) ==
             IF comp.type = "COLOR"
             THEN BlockComponents(tag, i + 1, [bl EXCEPT !.font_color = col], bgcolor)
             ELSE BlockComponents(tag, i + 1, [bl EXCEPT !.background_color = col],
                                  IF tag.id = "Tag_BODY" THEN col ELSE bgcolor)
       IN  IF comp.type \in {"COLOR", "BGCOLOR"} /\ Len(comp.val) > 0
           THEN Coloured(rspamd_html_process_color(comp.val))
           ELSE IF comp.type = "STYLE" /\ Len(comp.val) > 0
           THEN BlockComponents(tag, i + 1,
                   rspamd_html_process_style([bl EXCEPT !.style = comp.val], comp.val),
                   bgcolor)
           ELSE IF comp.type = "CLASS" /\ Len(comp.val) > 0
           THEN BlockComponents(tag, i + 1, [bl EXCEPT !.class = comp.val], bgcolor)
           ELSE BlockComponents(tag, i + 1, bl, bgcolor)

RECURSIVE InheritColor(_, _, _, _)
\* the for loops over the parent nodes: the nearest FL_BLOCK ancestor block
\* with a valid colour of this kind (NoColor when the walk finds nothing)
InheritColor(w, parent, kind, dflt) ==
  IF parent = 0 THEN dflt
  ELSE LET pt == w.nodes[parent].data
       IN  IF /\ pt # 0
              /\ "FL_BLOCK" \in w.tags[pt].flags
              /\ w.tags[pt].extra.kind # "none"
              /\ w.tags[pt].extra.bl[kind].valid
           THEN w.tags[pt].extra.bl[kind]
           ELSE InheritColor(w, w.nodes[parent].parent, kind, dflt)

\* rspamd_html_process_block_tag (pool, tag, hc) for tag t
rspamd_html_process_block_tag(w, t) ==
  LET tag == w.tags[t]
      Inherited(own, kind) ==
        IF ~own.valid THEN InheritColor(w, tag.parent, kind, own) ELSE own
      Font(fc1) ==
        IF ~fc1.valid
        THEN [valid |-> TRUE, r |-> 0, g |-> 0, b |-> 0, alpha |-> 255]
        ELSE fc1
      Background(bg1, bgcolor) == IF ~bg1.valid THEN bgcolor ELSE bg1
      Stored(bgcolor, bl) ==
        [w EXCEPT !.hc.bgcolor = bgcolor,
                  !.hc.blocks = Append(@, bl),
                  !.tags[t].extra = [NoExtra EXCEPT !.kind = "block", !.bl = bl]]
      Read(bc) ==
        Stored(bc.bgcolor,
               [bc.bl EXCEPT
                  !.font_color = Font(Inherited(bc.bl.font_color, "font_color")),
                  !.background_color =
                     Background(Inherited(bc.bl.background_color, "background_color"),
                                bc.bgcolor)])
  IN  Read(BlockComponents(tag, 1, NoBlock, w.hc.bgcolor))

RECURSIVE ImgComponents(_, _, _, _, _)
\* the while (cur) loop of rspamd_html_process_img_tag from component i
ImgComponents(tag, i, img, seen_w, seen_h) ==
  IF i > Len(tag.params) THEN img
  ELSE LET comp == tag.params[i]
       IN  IF comp.type = "HREF" /\ Len(comp.val) > 0
           THEN ImgComponents(tag, i + 1,
                  [img EXCEPT !.src = comp.val,
                              !.flags = @ \cup
                                 (IF Len(comp.val) > 4
                                     /\ SubSeq(comp.val, 1, 4) = <<"c","i","d",":">>
                                  THEN {"IMAGE_EMBEDDED"} ELSE {"IMAGE_EXTERNAL"})],
                  seen_w, seen_h)
           ELSE IF comp.type = "HEIGHT"
           THEN ImgComponents(tag, i + 1,
                  [img EXCEPT !.height = rspamd_strtoul(comp.val).val], seen_w, TRUE)
           ELSE IF comp.type = "WIDTH"
           THEN ImgComponents(tag, i + 1,
                  [img EXCEPT !.width = rspamd_strtoul(comp.val).val], TRUE, seen_h)
           ELSE ImgComponents(tag, i + 1, img, seen_w, seen_h)

\* rspamd_html_process_img_tag (pool, tag, hc) for tag t (the width / height
\* search inside a style attribute is left out)
rspamd_html_process_img_tag(w, t) ==
  LET Stored(img) ==
        [w EXCEPT !.hc.images = Append(@, img),
                  !.tags[t].extra = [NoExtra EXCEPT !.kind = "img", !.img = img]]
  IN  Stored(ImgComponents(w.tags[t], 1, NoImage, FALSE, FALSE))

----------------------------------------------------------------------------
(* Document parser: rspamd_html_process_part_full *)

\* the state of the program as one record, for the operators above
W == [doc |-> doc, hc |-> hc, tags |-> tags, nodes |-> nodes, urls |-> urls,
      trace |-> trace]

Commit(w) ==
  /\ doc' = w.doc
  /\ hc' = w.hc
  /\ tags' = w.tags
  /\ nodes' = w.nodes
  /\ urls' = w.urls
  /\ trace' = w.trace

\* the locals of rspamd_html_process_part_full before the loop, for input inb
DocStart(inb) ==
  [in |-> inb, p |-> 0, c |-> 0, savep |-> -1, closing |-> FALSE,
   need_decode |-> FALSE, save_space |-> FALSE, balanced |-> TRUE,
   dest |-> <<>>, obrace |-> 0, ebrace |-> 0, cur_level |-> 0,
   substate |-> "parse_start", href_offset |-> -1, cur_tag |-> 0,
   content_tag |-> 0, url |-> 0, state |-> "parse_start",
   exceptions |-> <<>>]

\* *hc after the set-up of rspamd_html_process_part_full (white background)
HcStart ==
  [flags |-> {}, total_tags |-> 0, tags_seen |-> {},
   bgcolor |-> [valid |-> TRUE, r |-> 255, g |-> 255, b |-> 255, alpha |-> 0],
   images |-> <<>>, blocks |-> <<>>, html_tags |-> 0]

UrlsStart == [recs |-> <<>>, urls |-> {}, emails |-> {}]

TraceStart ==
  [created |-> 0,        \* tree nodes created, the root excluded
   matched |-> <<>>,     \* <<closing tag, opening tag>> of each balance match
   checked |-> {},       \* href URLs handed to the phishing detector
   regs |-> 0,           \* look-ups of a URL in its table, each followed by
                         \* an insert or by count ++
   occ |-> 0,            \* tags that reached tag_end
   open |-> <<>>,        \* opening non-inline tags not yet closed, in order
   closes |-> <<>>,      \* per closing non-inline tag: [own, got]
   stray |-> FALSE,      \* a closing tag did not close the innermost open element
   selfnest |-> FALSE,   \* an element without FL_BLOCK directly holds its like
   hidden |-> 0,         \* the open tag whose block is not visible (0: none)
   leaked |-> <<>>,      \* content bytes appended while hidden # 0
   anchor |-> [h |-> <<>>, at |-> 0],   \* the open <a href=h>, at = dest->len
   anchors |-> <<>>,     \* per closed anchor: [h, text], text as in dest
   abort |-> FALSE,      \* a g_assert failed
   oob |-> FALSE]        \* a byte at or after the end of the input was read

Running(st) == doc.state = st /\ doc.p < Len(doc.in) /\ ~trace.abort

Byte == doc.in[doc.p + 1]

\* the flush of the run c .. p into dest in content_write; extra is the 1
\* added to content_length when the run ends at a space
FlushRun(w, extra) ==
  LET d  == w.doc
      ct == d.content_tag
      Decoded(dr) == SubSeq(dr.s, 1, dr.len)
      Counted(w1) ==
        IF ct = 0 THEN w1
        ELSE [w1 EXCEPT !.tags[ct].content = IF @ = -1 THEN d.c ELSE @,
                        !.tags[ct].content_length = @ + (d.p - d.c) + extra]
      Written(out) ==
        Counted([w EXCEPT !.doc.dest = @ \o out,
                          !.trace.leaked = IF w.trace.hidden # 0 THEN @ \o out ELSE @])
      Flushed(run) ==
        Written(IF d.need_decode
                THEN Decoded(rspamd_html_decode_entitles_inplace(run, Len(run)))
                ELSE run)
  IN  IF d.p = d.c THEN w
      ELSE Flushed(Span(d.in, d.c, d.p))

\* the line break would be appended whatever dest holds
AppendNewline_always(dest) == dest \o <<"\r", "\n">>

\* dest->len > 0 && dest->data[dest->len - 1] != '\n': append "\r\n"
AppendNewline(dest) ==
  IF Len(dest) > 0 /\ dest[Len(dest)] # "\n" THEN dest \o <<"\r", "\n">> ELSE dest

case_parse_start ==
  /\ Running("parse_start")
  /\ IF Byte = "<"
     THEN doc' = [doc EXCEPT !.state = "tag_begin"] /\ hc' = hc
     ELSE /\ doc' = [doc EXCEPT !.state = "content_write"]
          /\ hc' = [hc EXCEPT !.flags = @ \cup {"BAD_START"}]
  /\ UNCHANGED <<dec, tags, nodes, urls, ph, msg, lib, trace>>

case_tag_begin ==
  /\ Running("tag_begin")
  /\ CASE Byte = "<" ->
            /\ doc' = [doc EXCEPT !.p = @ + 1, !.closing = FALSE]
            /\ UNCHANGED <<hc, tags>>
       [] Byte = "!" ->
            /\ doc' = [doc EXCEPT !.p = @ + 1, !.state = "sgml_tag"]
            /\ UNCHANGED <<hc, tags>>
       [] Byte = "?" ->
            /\ doc' = [doc EXCEPT !.p = @ + 1, !.state = "xml_tag"]
            /\ hc' = [hc EXCEPT !.flags = @ \cup {"XML"}]
            /\ tags' = tags
       [] Byte = "/" ->
            /\ doc' = [doc EXCEPT !.p = @ + 1, !.closing = TRUE]
            /\ UNCHANGED <<hc, tags>>
       [] Byte = ">" ->
            /\ doc' = [doc EXCEPT !.p = @ + 1, !.state = "tag_end"]
            /\ hc' = [hc EXCEPT !.flags = @ \cup {"BAD_ELEMENTS"}]
            /\ tags' = tags
       [] OTHER ->
            /\ doc' = [doc EXCEPT !.state = "tag_content",
                                  !.substate = "parse_start",
                                  !.savep = -1,
                                  !.cur_tag = Len(tags) + 1]
            /\ tags' = Append(tags, NewTag)
            /\ hc' = hc
  /\ UNCHANGED <<dec, nodes, urls, ph, msg, lib, trace>>

case_sgml_tag ==
  /\ Running("sgml_tag")
  /\ doc' = CASE Byte = "[" -> [doc EXCEPT !.state = "compound_tag", !.obrace = 1,
                                           !.ebrace = 0, !.p = @ + 1]
              [] Byte = "-" -> [doc EXCEPT !.state = "comment_tag", !.p = @ + 1]
              [] OTHER -> [doc EXCEPT !.state = "sgml_content"]
  /\ UNCHANGED <<dec, hc, tags, nodes, urls, ph, msg, lib, trace>>

case_xml_tag ==
  /\ Running("xml_tag")
  /\ IF Byte = "?"
     THEN doc' = [doc EXCEPT !.state = "xml_tag_end", !.p = @ + 1] /\ hc' = hc
     ELSE IF Byte = ">"
     THEN /\ doc' = [doc EXCEPT !.state = "tag_end"]
          /\ hc' = [hc EXCEPT !.flags = @ \cup {"BAD_ELEMENTS"}]
     ELSE doc' = [doc EXCEPT !.p = @ + 1] /\ hc' = hc
  /\ UNCHANGED <<dec, tags, nodes, urls, ph, msg, lib, trace>>

case_xml_tag_end ==
  /\ Running("xml_tag_end")
  /\ IF Byte = ">"
     THEN doc' = [doc EXCEPT !.state = "tag_end"] /\ hc' = hc
     ELSE /\ doc' = [doc EXCEPT !.p = @ + 1]
          /\ hc' = [hc EXCEPT !.flags = @ \cup {"BAD_ELEMENTS"}]
  /\ UNCHANGED <<dec, tags, nodes, urls, ph, msg, lib, trace>>

case_compound_tag ==
  /\ Running("compound_tag")
  /\ doc' = IF Byte = "[" THEN [doc EXCEPT !.obrace = @ + 1, !.p = @ + 1]
            ELSE IF Byte = "]" THEN [doc EXCEPT !.ebrace = @ + 1, !.p = @ + 1]
            ELSE IF Byte = ">" /\ doc.obrace = doc.ebrace
            THEN [doc EXCEPT !.state = "tag_end", !.p = @ + 1]
            ELSE [doc EXCEPT !.p = @ + 1]
  /\ UNCHANGED <<dec, hc, tags, nodes, urls, ph, msg, lib, trace>>

case_comment_tag ==
  /\ Running("comment_tag")
  /\ hc' = IF Byte # "-" THEN [hc EXCEPT !.flags = @ \cup {"BAD_ELEMENTS"}] ELSE hc
  /\ doc' = [doc EXCEPT !.p = @ + 1, !.ebrace = 0, !.state = "comment_content"]
  /\ UNCHANGED <<dec, tags, nodes, urls, ph, msg, lib, trace>>

case_comment_content ==
  /\ Running("comment_content")
  /\ doc' = IF Byte = "-" THEN [doc EXCEPT !.ebrace = @ + 1, !.p = @ + 1]
            ELSE IF Byte = ">" /\ doc.ebrace = 2
            THEN [doc EXCEPT !.state = "tag_end"]
            ELSE [doc EXCEPT !.ebrace = 0, !.p = @ + 1]
  /\ UNCHANGED <<dec, hc, tags, nodes, urls, ph, msg, lib, trace>>

case_content_ignore ==
  /\ Running("content_ignore")
  /\ doc' = IF Byte # "<" THEN [doc EXCEPT !.p = @ + 1]
            ELSE [doc EXCEPT !.state = "tag_begin"]
  /\ UNCHANGED <<dec, hc, tags, nodes, urls, ph, msg, lib, trace>>

\* the space would be appended whatever dest holds
AppendSpace_always(dest) == dest \o <<" ">>

\* "Append one space if needed": dest->len > 0 &&
\* !g_ascii_isspace (dest->data[dest->len - 1])
AppendSpace(dest) ==
  IF Len(dest) > 0 /\ ~g_ascii_isspace(dest[Len(dest)]) THEN dest \o <<" ">> ELSE dest

case_content_write ==
  /\ Running("content_write")
  /\ LET w == W
     IN  IF Byte # "<"
         THEN IF Byte = "&"
              THEN Commit([w EXCEPT !.doc.need_decode = TRUE, !.doc.p = @ + 1])
              ELSE IF g_ascii_isspace(Byte)
              THEN Commit([FlushRun([w EXCEPT !.doc.save_space = TRUE], 1) EXCEPT
                              !.doc.c = doc.p,
                              !.doc.state = "content_ignore_sp",
                              !.doc.p = @ + 1])
              ELSE IF doc.save_space
              THEN Commit([w EXCEPT
                     !.doc.dest = AppendSpace(@),
                     !.doc.save_space = FALSE,
                     !.doc.p = @ + 1])
              ELSE Commit([w EXCEPT !.doc.p = @ + 1])
         ELSE Commit([FlushRun(w, 0) EXCEPT !.doc.content_tag = 0,
                                            !.doc.state = "tag_begin"])
  /\ UNCHANGED <<dec, ph, msg, lib>>

\* a non-space byte leaves the parser in content_ignore_sp
StayInIgnoredSpaces == "content_ignore_sp"

\* the state a non-space byte leads to from content_ignore_sp
AfterIgnoredSpaces == "content_write"

case_content_ignore_sp ==
  /\ Running("content_ignore_sp")
  /\ IF ~g_ascii_isspace(Byte)
     THEN doc' = [doc EXCEPT !.c = doc.p, !.state = AfterIgnoredSpaces] /\ tags' = tags
     ELSE /\ doc' = [doc EXCEPT !.p = @ + 1]
          /\ tags' = IF doc.content_tag # 0
                     THEN [tags EXCEPT ![doc.content_tag].content_length = @ + 1]
                     ELSE tags
  /\ UNCHANGED <<dec, hc, nodes, urls, ph, msg, lib, trace>>

case_sgml_content ==
  /\ Running("sgml_content")
  /\ doc' = IF Byte = ">" THEN [doc EXCEPT !.state = "tag_end", !.cur_tag = 0]
            ELSE [doc EXCEPT !.p = @ + 1]
  /\ UNCHANGED <<dec, hc, tags, nodes, urls, ph, msg, lib, trace>>

\* the byte *(in + 1) read by the "/>" tests: past the end of the input it
\* is whatever follows the buffer
LookAhead ==
  IF doc.p + 1 < Len(doc.in) THEN {doc.in[doc.p + 2]} ELSE {">", "x"}

case_tag_content ==
  /\ Running("tag_content")
  /\ \E nx \in LookAhead :
       LET Parsed(r) ==
           /\ tags' = [tags EXCEPT ![doc.cur_tag] =
                          IF Byte = ">" /\ doc.closing
                          THEN [r.tag EXCEPT !.flags = @ \cup {"FL_CLOSING"}]
                          ELSE r.tag]
           /\ hc' = [hc EXCEPT !.flags =
                        IF Byte = ">" /\ doc.closing /\ "FL_CLOSED" \in r.tag.flags
                        THEN r.flags \cup {"BAD_ELEMENTS"}
                        ELSE r.flags]
           /\ doc' = [doc EXCEPT !.substate = r.state,
                                 !.savep = r.savep,
                                 !.closing = IF Byte = ">" THEN FALSE ELSE @,
                                 !.state = IF Byte = ">" THEN "tag_end" ELSE @,
                                 !.p = IF Byte = ">" THEN @ ELSE @ + 1]
           /\ trace' = [trace EXCEPT
                          !.abort = r.abort,
                          !.oob = @ \/ (/\ Byte = "/"
                                        /\ doc.p + 1 >= Len(doc.in)
                                        /\ doc.substate \in
                                             {"parse_value", "parse_end_dquote",
                                              "parse_end_squote", "spaces_after_param"})]
       IN  Parsed(rspamd_html_parse_tag_content(tags[doc.cur_tag], hc.flags, doc.in,
                                                doc.p, nx, doc.substate, doc.savep))
  /\ UNCHANGED <<dec, nodes, urls, ph, msg, lib>>

\* tag_end, "if (cur_tag->id != -1 && cur_tag->id < N_TAGS)": duplicates of
\* CM_UNIQUE tags and the tags_seen bitset
MarkSeen(w, t) ==
  LET tag == w.tags[t]
  IN  IF tag.id = "-1" THEN w
      ELSE [w EXCEPT !.hc.flags = IF "CM_UNIQUE" \in tag.flags /\ tag.id \in w.hc.tags_seen
                                  THEN @ \cup {"DUPLICATE_ELEMENTS"} ELSE @,
                     !.hc.tags_seen = @ \cup {tag.id}]

\* tag_end, "Handle newlines"
HandleNewlines(w, t) ==
  LET tag == w.tags[t]
  IN  IF tag.id \in {"Tag_BR", "Tag_HR"}
      THEN [w EXCEPT !.doc.dest = AppendNewline(@), !.doc.save_space = FALSE]
      ELSE IF /\ tag.flags \cap {"FL_CLOSED", "FL_CLOSING"} # {}
              /\ tag.id \in {"Tag_P", "Tag_TR", "Tag_DIV"}
              /\ w.doc.balanced
      THEN [w EXCEPT !.doc.dest = AppendNewline(@), !.doc.save_space = FALSE]
      ELSE w

\* tag_end, opening <a> / <iframe>: URL extraction and registration
OpenAnchor(w, t) ==
  LET Registered(pu, li) ==
        LET Seen(w1) == [w1 EXCEPT !.doc.url = IF li.inserted THEN pu.url ELSE 0,
                                   !.doc.href_offset = Len(w1.doc.dest)]
        IN  Seen(IF li.inserted THEN rspamd_process_html_url(li.w, pu.url) ELSE li.w)
      Extracted(pu) ==
        IF pu.url = 0
        THEN [pu.w EXCEPT !.doc.url = 0]
        ELSE Registered(pu, LookupOrInsert(pu.w, pu.url))
  IN  Extracted(rspamd_html_process_url_tag(w, t))

\* tag_end, <a>: the displayed text of the previous unbalanced anchor
PrevAnchor(w) ==
  LET Sibling(prev) ==
        LET pt == w.tags[w.nodes[prev].data]
        IN  IF /\ prev # 0
               /\ pt.id = "Tag_A"
               /\ "FL_CLOSING" \notin pt.flags
               /\ pt.extra.kind # "none"
            THEN rspamd_html_check_displayed_url(w, w.doc.href_offset, pt.extra.url)
            ELSE w
  IN  IF ~w.doc.balanced /\ w.doc.cur_level # 0
      THEN Sibling(g_node_prev(w.nodes, w.doc.cur_level))
      ELSE w

\* tag_end, closing </a>
CloseAnchor(w) ==
  LET w1 == IF w.doc.url # 0 /\ Len(w.doc.dest) > w.doc.href_offset
            THEN rspamd_html_check_displayed_url(w, w.doc.href_offset, w.doc.url)
            ELSE w
  IN  [w1 EXCEPT !.doc.href_offset = -1, !.doc.url = 0]

\* tag_end, the Tag_A / Tag_IFRAME / Tag_LINK block
HandleLinks(w, t) ==
  LET tag == w.tags[t]
      Opened(w1) == IF tag.id = "Tag_A" THEN PrevAnchor(w1) ELSE w1
      Closed(w2) == IF tag.id = "Tag_A" /\ "FL_CLOSING" \in tag.flags
                    THEN CloseAnchor(w2) ELSE w2
      Link(lk)   == [lk.w EXCEPT !.doc.url = lk.url]
  IN  IF tag.id \in {"Tag_A", "Tag_IFRAME"}
      THEN Closed(Opened(IF "FL_CLOSING" \notin tag.flags THEN OpenAnchor(w, t) ELSE w))
      ELSE IF tag.id = "Tag_LINK" THEN Link(rspamd_html_process_url_tag(w, t))
      ELSE w

\* tag_end, <img> and block tags; a block that is not visible switches the
\* parser to content_ignore
HandleBlocks(w, t) ==
  LET tag == w.tags[t]
      Shown(wb) == IF ~wb.tags[t].extra.bl.visible
                   THEN [wb EXCEPT !.doc.state = "content_ignore"]
                   ELSE wb
  IN  IF tag.id = "Tag_IMG" /\ "FL_CLOSING" \notin tag.flags
      THEN rspamd_html_process_img_tag(w, t)
      ELSE IF "FL_CLOSING" \notin tag.flags /\ "FL_BLOCK" \in tag.flags
      THEN Shown(rspamd_html_process_block_tag(w, t))
      ELSE w

\* bookkeeping of the run for the properties: tags seen, the element that
\* each closing tag belongs to, the open hidden element, and the href and
\* the displayed text of each anchor
Observe(w0, w, t) ==
  LET tag  == w.tags[t]
      elem == tag.id # "-1" /\ "CM_INLINE" \notin tag.flags
      open == w0.trace.open
      got  == IF Len(w.trace.matched) > Len(w0.trace.matched)
              THEN w.trace.matched[Len(w.trace.matched)][2] ELSE 0
      w1   == [w EXCEPT !.trace.occ = @ + 1]
      top  == IF Len(open) > 0 THEN open[Len(open)] ELSE 0
      w2   == IF elem /\ "FL_CLOSING" \in tag.flags
              THEN [w1 EXCEPT
                      !.trace.closes = Append(@, [own |-> top, got |-> got]),
                      !.trace.stray = @ \/ top = 0 \/ w.tags[top].id # tag.id,
                      !.trace.open = IF Len(open) > 0
                                     THEN SubSeq(open, 1, Len(open) - 1) ELSE open]
              ELSE IF elem /\ "FL_CLOSED" \notin tag.flags
              THEN [w1 EXCEPT
                      !.trace.open = Append(@, t),
                      !.trace.selfnest = @ \/ (/\ top # 0
                                               /\ w.tags[top].id = tag.id
                                               /\ "FL_BLOCK" \notin w.tags[top].flags)]
              ELSE w1
      w3   == IF got # 0 /\ got = w0.trace.hidden
              THEN [w2 EXCEPT !.trace.hidden = 0]
              ELSE w2
      w4   == IF /\ w3.trace.hidden = 0
                 /\ tag.flags \cap {"FL_CLOSING", "FL_CLOSED"} = {}
                 /\ tag.extra.kind = "block"
                 /\ ~tag.extra.bl.visible
                 /\ w.doc.cur_level # 0
                 /\ w.nodes[w.doc.cur_level].data = t
              THEN [w3 EXCEPT !.trace.hidden = t]
              ELSE w3
      href == FirstHref(tag)
      a    == w0.trace.anchor
  IN  IF tag.id # "Tag_A" THEN w4
      ELSE IF "FL_CLOSING" \notin tag.flags
      THEN IF href = 0 THEN w4
           ELSE [w4 EXCEPT !.trace.anchor =
                    [h |-> tag.params[href].val, at |-> Len(w0.doc.dest)]]
      ELSE IF a.h = <<>> THEN w4
      ELSE [w4 EXCEPT
              !.trace.anchor = [h |-> <<>>, at |-> 0],
              !.trace.anchors = Append(@,
                  [h |-> a.h, text |-> SubSeq(w.doc.dest, a.at + 1, Len(w.doc.dest))])]

\* the tag_end case for a tag (cur_tag != NULL)
TagEnd(w0) ==
  LET t == w0.doc.cur_tag
      Processed(pt) ==
        IF pt.ret
        THEN [pt.w EXCEPT !.doc.state = "content_write", !.doc.need_decode = FALSE]
        ELSE [pt.w EXCEPT !.doc.state = "content_ignore"]
      Content(w2) ==
        IF w2.tags[t].flags \cap {"FL_CLOSED", "FL_CLOSING"} = {}
        THEN [w2 EXCEPT !.doc.content_tag = t] ELSE w2
      Seen(w1)  == Content(MarkSeen(w1, t))
      Links(w3) == HandleLinks(HandleNewlines(w3, t), t)
      Done(w5)  == Observe(w0, HandleBlocks(w5, t), t)
  IN  Done(Links(Seen(Processed(
        rspamd_html_process_tag([w0 EXCEPT !.doc.balanced = TRUE])))))

case_tag_end ==
  /\ Running("tag_end")
  /\ LET w0 == [W EXCEPT !.doc.substate = "parse_start", !.doc.savep = -1]
         Advance(w1) == [w1 EXCEPT !.doc.p = @ + 1,
                                   !.doc.c = w1.doc.p + 1,
                                   !.doc.cur_tag = 0]
     IN  Commit(Advance(IF doc.cur_tag # 0 THEN TagEnd(w0)
                        ELSE [w0 EXCEPT !.doc.state = "content_write"]))
  /\ UNCHANGED <<dec, ph, msg, lib>>

DocNext ==
  \/ case_parse_start
  \/ case_tag_begin
  \/ case_sgml_tag
  \/ case_xml_tag
  \/ case_xml_tag_end
  \/ case_compound_tag
  \/ case_comment_tag
  \/ case_comment_content
  \/ case_content_ignore
  \/ case_content_write
  \/ case_content_ignore_sp
  \/ case_sgml_content
  \/ case_tag_content
  \/ case_tag_end

----------------------------------------------------------------------------
(* Inputs *)

RECURSIVE Concat(_)
\* the concatenation of a sequence of byte sequences
Concat(ss) == IF ss = <<>> THEN <<>> ELSE Head(ss) \o Concat(Tail(ss))

\* the inputs made of at most n pieces taken from the set ps
Pieces(ps, n) == UNION {{Concat(f) : f \in [1..k -> ps]} : k \in 0..n}

\* a document that takes the parser through each of its states:
\* <?x?><![a]>.<!-- --><!D><z>q<p>x y</p>
CoverDoc ==
  <<"<","?","x","?",">","<","!","[","a","]",">",".","<","!","-","-"," ","-","-",">",
    "<","!","D",">","<","z",">","q","<","p",">","x"," ","y","<","/","p",">">>

DecIdle == DecodeStart(<<>>, 0)

PhIdle == [recs |-> <<>>, text |-> <<>>, called |-> TRUE, url_found |-> FALSE,
           text_url |-> 0]

\* no message is being parsed
MsgIdle == [w1 |-> <<>>, w2 |-> <<>>, text_parts |-> 0, alternative |-> FALSE,
            empty |-> TRUE, called |-> TRUE, ret |-> 0, parsed |-> TRUE,
            parts_distance |-> <<>>, total_words |-> 0,
            normalized |-> TRUE, stripped_content |-> <<>>, newlines |-> <<>>,
            exceptions |-> <<>>]

\* the static tables of html.c
Tables == {"tag_defs", "tag_defs_num", "entities_defs", "entities_defs_num"}

\* the library after rspamd_html_library_init has run once: the state the
\* parser of one part works in
LibIdle == [tags_sorted |-> 1, entities_sorted |-> 1,
            sorts |-> [tb \in Tables |-> 1],
            searched |-> {}, early |-> {}, parts |-> 1, log |-> <<>>]

\* the parser started on one of the documents of the set docs
InitDocs(docs) ==
  /\ doc \in {DocStart(d) : d \in docs}
  /\ hc = HcStart
  /\ tags = <<>>
  /\ nodes = <<>>
  /\ urls = UrlsStart
  /\ trace = TraceStart
  /\ dec = DecIdle
  /\ ph = PhIdle
  /\ msg = MsgIdle
  /\ lib = LibIdle

----------------------------------------------------------------------------
(* Tag-content parsing of arbitrary attribute lists *)

MaxAttrPieces == 4

AttrPieces ==
  {<<" ">>, <<"=">>, <<"\"">>, <<"'">>, <<"/">>, <<"x">>, <<"h","r","e","f">>}

\* <a ...>, </a ...> and <p ...> with every attribute list of the pieces
AttrDocs ==
  {pre \o body \o <<">", "t">> :
      pre \in {<<"<","a"," ">>, <<"<","/","a">>, <<"<","p">>},
      body \in Pieces(AttrPieces, MaxAttrPieces)}

MaxBytes == 4

ByteAlphabet == {"<", ">", "!", "-", "?", "[", "]", "/", "a", " ", "&"}

\* every input of at most MaxBytes bytes of the alphabet
ByteDocs == UNION {[1..k -> ByteAlphabet] : k \in 0..MaxBytes}

Init == InitDocs(AttrDocs \cup ByteDocs \cup {CoverDoc})

Next == DocNext

Spec == Init /\ [][Next]_vars

\* the number of transitions that may follow a parser state before a byte
\* is consumed
StateRank ==
  [s \in {"tag_end"} |-> 0] @@
  [s \in {"tag_content", "sgml_content", "xml_tag", "xml_tag_end",
          "compound_tag", "comment_tag", "comment_content"} |-> 1] @@
  [s \in {"tag_begin", "sgml_tag"} |-> 2] @@
  [s \in {"content_write", "content_ignore"} |-> 3] @@
  [s \in {"content_ignore_sp"} |-> 4] @@
  [s \in {"parse_start"} |-> 5]

\* C8: every step of the loop either advances the read position, never past
\* the end of the buffer, or moves to a parser state that is closer to
\* consuming a byte, so no cycle of transitions consumes no byte and the
\* loop ends with the read position at the end
LoopProgress ==
  [][/\ doc.p' <= Len(doc.in)
     /\ \/ doc.p' > doc.p
        \/ doc.p' = doc.p /\ StateRank[doc.state'] < StateRank[doc.state]]_vars

\* the read position is at the end of an input in which tags were processed
LoopEnded == doc.p = Len(doc.in) /\ trace.occ >= 2 /\ Len(doc.dest) > 0

\* C9: no assertion of the tag-content parser fails, and no step clears a
\* bit of the document flags
NoAbortFlagsKept == [][~trace.abort' /\ hc.flags \subseteq hc.flags']_vars

\* an attribute value was stored into the tail component of a tag after an
\* anomaly had been flagged
ValueStoredAfterAnomaly ==
  /\ hc.flags # {}
  /\ \E t \in 1..Len(tags) :
        \E i \in 1..Len(tags[t].params) : Len(tags[t].params[i].val) > 0

----------------------------------------------------------------------------
(* Elements that are not displayed *)

MaxHiddenPieces == 4

\* <div style=display:none>
HiddenDiv ==
  <<"<","d","i","v"," ","s","t","y","l","e","=","d","i","s","p","l","a","y",":",
    "n","o","n","e",">">>

HiddenPieces ==
  {HiddenDiv, <<"a">>, <<"<","b",">">>, <<"<","/","b",">">>,
   <<"<","!","-","-","-","-",">">>, <<"<","/","d","i","v",">">>}

HiddenDocs == Pieces(HiddenPieces, MaxHiddenPieces)

InitHidden == InitDocs(HiddenDocs \cup {CoverDoc})

SpecHidden == InitHidden /\ [][Next]_vars

\* C1: no byte of content that lies between the opening tag of an element
\* whose block is not visible and its matching closing tag is appended to the
\* output text
HiddenContentNeverAppended == trace.leaked = <<>>

----------------------------------------------------------------------------
(* Anchors and their displayed text *)

MaxAnchorPieces == 4

AnchorPieces ==
  {<<"<","a"," ","h","r","e","f","=","h","t","t","p",":","/","/","a",".","b",">">>,
   <<"<","a"," ","h","r","e","f","=","h","t","t","p",":","/","/","c",".","d",">">>,
   <<"h","t","t","p",":","/","/","c",".","d">>,
   <<"x">>, <<" ">>, <<"<","/","a",">">>}

AnchorDocs == Pieces(AnchorPieces, MaxAnchorPieces)

InitAnchor == InitDocs(AnchorDocs \cup {CoverDoc})

SpecAnchor == InitAnchor /\ [][Next]_vars

\* the displayed URL of an anchor text: the URL the text begins with after
\* its leading whitespace
DisplayedOf(text) ==
  LET txt == SubSeq(text, LeadSpaces(text, 1) + 1, Len(text))
      f   == rspamd_url_find(txt)
  IN  IF f.found /\ f.url_pos = 0 THEN rspamd_url_parse(f.url_str) ELSE [ok |-> FALSE]

\* a is a proper suffix of b that starts after a dot of b
DotSuffix(a, b) ==
  /\ Len(a) < Len(b)
  /\ SubSeq(b, Len(b) - Len(a) + 1, Len(b)) = a
  /\ b[Len(b) - Len(a)] = "."

\* the anchor <a href=h>text</a> displays a URL of another site
Misleading(a) ==
  LET hp == rspamd_url_parse(a.h)
      dp == DisplayedOf(a.text)
  IN  /\ hp.ok /\ dp.ok
      /\ LowerSeq(hp.url.host) # LowerSeq(dp.url.host)
      /\ LowerSeq(hp.url.tld) # LowerSeq(dp.url.tld)
      /\ ~DotSuffix(hp.url.tld, dp.url.tld)
      /\ ~DotSuffix(dp.url.tld, hp.url.tld)

\* the record of the urls table for h is flagged and its phished_url is the
\* displayed URL of text
FlaggedAsPhished(a) ==
  \E k \in urls.urls :
     /\ urls.recs[k].string = a.h
     /\ "PHISHED" \in urls.recs[k].flags
     /\ urls.recs[k].phished_url # 0
     /\ urls.recs[urls.recs[k].phished_url].string = DisplayedOf(a.text).url.string

\* C2: once the closing </a> of an anchor <a href=H>T</a> is processed, at
\* any position of the document, the record of H is flagged as phished with
\* the displayed URL of T whenever T displays a URL of another site
AnchorPhishingFlagged ==
  \A i \in 1..Len(trace.anchors) :
     Misleading(trace.anchors[i]) => FlaggedAsPhished(trace.anchors[i])

----------------------------------------------------------------------------
(* rspamd_html_url_is_phished on pairs of hosts *)

\* "http://" followed by host
HttpUrl(host) == <<"h","t","t","p",":","/","/">> \o host

PhishHosts ==
  {<<"a",".","b">>, <<"A",".","b">>, <<"x",".","a",".","b">>,
   <<"x",".","A",".","B">>, <<"a",".","b",".">>, <<"b">>, <<"c",".","d">>,
   <<"y",".","c",".","d">>, <<"d">>, <<"a",".","d">>}

\* displayed texts: a URL, a URL after a space, a URL after other text
PhishTexts ==
  UNION {{HttpUrl(h), <<" ">> \o HttpUrl(h), <<"t", " ">> \o HttpUrl(h)} :
            h \in PhishHosts}

InitPhish ==
  /\ ph \in {[recs |-> <<rspamd_url_parse(HttpUrl(h)).url>>, text |-> t,
              called |-> FALSE, url_found |-> FALSE, text_url |-> 0] :
                h \in PhishHosts, t \in PhishTexts}
  /\ doc = DocStart(<<>>)
  /\ hc = HcStart
  /\ tags = <<>>
  /\ nodes = <<>>
  /\ urls = UrlsStart
  /\ trace = TraceStart
  /\ dec = DecIdle
  /\ msg = MsgIdle
  /\ lib = LibIdle

\* rspamd_html_url_is_phished (pool, href_url, url_text, len, &url_found,
\* &text_url) with href_url = recs[1]
call_url_is_phished ==
  /\ ~ph.called
  /\ LET r == rspamd_html_url_is_phished(ph.recs, 1, ph.text)
     IN  ph' = [ph EXCEPT !.recs = r.recs, !.called = TRUE,
                          !.url_found = r.url_found, !.text_url = r.text_url]
  /\ UNCHANGED <<dec, doc, hc, tags, nodes, urls, msg, lib, trace>>

NextPhish == call_url_is_phished

SpecPhish == InitPhish /\ [][NextPhish]_vars

\* C3: the href URL is flagged as phished only when the displayed host and
\* the href host differ without regard to case, their TLDs differ without
\* regard to case, neither TLD is a subdomain of the other, and the displayed
\* host is not a superdomain of the href host
NoFlagForRelatedHosts ==
  (ph.called /\ "PHISHED" \in ph.recs[1].flags) =>
     LET h == ph.recs[1]
         d == ph.recs[ph.text_url]
     IN  /\ ph.text_url # 0
         /\ LowerSeq(d.host) # LowerSeq(h.host)
         /\ LowerSeq(d.tld) # LowerSeq(h.tld)
         /\ ~DotSuffix(d.tld, h.tld)
         /\ ~DotSuffix(h.tld, d.tld)
         /\ ~DotSuffix(d.host, h.host)

\* the detector has compared a displayed host with an href host that is a
\* subdomain of it, and has left the href URL unflagged
SuperdomainCompared ==
  /\ ph.called
  /\ ph.text_url # 0
  /\ DotSuffix(ph.recs[ph.text_url].host, ph.recs[1].host)
  /\ "PHISHED" \notin ph.recs[1].flags

----------------------------------------------------------------------------
(* rspamd_html_decode_entitles_inplace on its own *)

MaxDecPieces == 3

DecPieces ==
  {<<"a">>, <<"&">>, <<";">>, <<"#">>, <<"&","a","m","p",";">>,
   <<"&","l","t",";">>, <<"&","#","x","4","1",";">>, <<"&","#","9",";">>,
   <<"&","#","1","6","4",";">>, <<"&","I","g","r","a","v","e",";">>}

DecInputs == Pieces(DecPieces, MaxDecPieces)

InitDecode ==
  /\ dec \in {DecodeStart(s, Len(s)) : s \in DecInputs}
  /\ doc = DocStart(<<>>)
  /\ hc = HcStart
  /\ tags = <<>>
  /\ nodes = <<>>
  /\ urls = UrlsStart
  /\ trace = TraceStart
  /\ ph = PhIdle
  /\ msg = MsgIdle
  /\ lib = LibIdle

\* one iteration of the loop of rspamd_html_decode_entitles_inplace; the
\* by-name bsearch returns any of the rows that compare equal to the key
decode_step ==
  /\ dec.h < dec.l
  /\ \E found \in (IF DecodeFound(dec) = {} THEN {0} ELSE DecodeFound(dec)) :
        dec' = DecodeStep(dec, found)
  /\ UNCHANGED <<doc, hc, tags, nodes, urls, ph, msg, lib, trace>>

NextDecode == decode_step

SpecDecode == InitDecode /\ [][NextDecode]_vars

\* C4: the write position t never passes the read position h, no byte is
\* written at an index >= n, and so the returned length t - s is at most n
DecodeNeverGrows == dec.t <= dec.h /\ dec.wend <= dec.l

----------------------------------------------------------------------------
(* Nesting of elements *)

MaxNestPieces == 5

NestPieces ==
  {<<"<","d","i","v",">">>, <<"<","/","d","i","v",">">>,
   <<"<","a",">">>, <<"<","/","a",">">>, <<"<","b",">">>}

NestDocs == Pieces(NestPieces, MaxNestPieces)

InitNest == InitDocs(NestDocs \cup {CoverDoc})

SpecNest == InitNest /\ [][Next]_vars

\* every closing tag so far was matched by rspamd_html_check_balance to its
\* own opening tag, and the unbalanced flag is not set
BalancedSoFar ==
  /\ "UNBALANCED" \notin hc.flags
  /\ \A i \in 1..Len(trace.closes) :
        trace.closes[i].own # 0 /\ trace.closes[i].got = trace.closes[i].own

\* C5 as stated: in a document whose non-inline elements are properly nested
\* without stray closing tags, elements of the same name nested or not, the
\* unbalanced flag is never set and every closing tag is matched to its own
\* opening tag
WellNestedBalanced == ~trace.stray => BalancedSoFar

\* C5 amended: the same for documents of at most max_tags tags in which no
\* element whose tag lacks FL_BLOCK directly contains an element of its own
\* name
WellNestedBalancedBelowCap ==
  (~trace.stray /\ ~trace.selfnest /\ trace.occ <= max_tags) => BalancedSoFar

\* two elements of the same name, one inside the other, have both been closed
SameNameNestedClosed ==
  /\ ~trace.stray /\ ~trace.selfnest /\ trace.occ <= max_tags
  /\ Len(trace.closes) = 2
  /\ trace.closes[1].own > trace.closes[2].own
  /\ tags[trace.closes[1].own].id = tags[trace.closes[2].own].id

----------------------------------------------------------------------------
(* Documents with more tags than max_tags *)

MaxCapTags == max_tags + 2

\* a block tag, its closing tag, an inline tag and an unknown tag
CapPieces ==
  {<<"<","p",">">>, <<"<","/","p",">">>, <<"<","b",">">>, <<"<","z",">">>}

CapDocs == Pieces(CapPieces, MaxCapTags)

InitCap == InitDocs(CapDocs \cup {CoverDoc})

SpecCap == InitCap /\ [][Next]_vars

\* C6: the number of nodes created in the tag tree, the root excluded and
\* the discarded closing markers included, is at most max_tags
NodesAtMostMaxTags == trace.created <= max_tags

\* max_tags nodes exist and a further tag has been processed
CapReached == trace.created = max_tags /\ trace.occ > max_tags

\* C7: when the parsing of an input with more than max_tags tag occurrences
\* of any kinds ends, the too-many-tags flag is set
TooManyTagsFlagged ==
  (doc.p = Len(doc.in) /\ trace.occ > max_tags) => "TOO_MANY_TAGS" \in hc.flags

----------------------------------------------------------------------------
(* Colours of blocks *)

MaxColorPieces == 3

ColorPieces ==
  {<<"<","b","o","d","y"," ","b","g","c","o","l","o","r","=","z","z","z",">">>,
   <<"<","b","o","d","y"," ","b","g","c","o","l","o","r","=","r","e","d",">">>,
   <<"<","p",">">>, <<"<","/","p",">">>,
   <<"<","p"," ","c","o","l","o","r","=","#","1","2",">">>,
   <<"<","f","o","n","t"," ","s","t","y","l","e","=","x",":","y",">">>}

ColorDocs == Pieces(ColorPieces, MaxColorPieces)

InitColor == InitDocs(ColorDocs \cup {CoverDoc})

SpecColor == InitColor /\ [][Next]_vars

\* the tag has no color / bgcolor attribute and no colour in its style
NoColorInfo(tag) ==
  \A i \in 1..Len(tag.params) :
     /\ tag.params[i].type \notin {"COLOR", "BGCOLOR"}
     /\ tag.params[i].type = "STYLE" =>
           /\ ~ContainsCaseless(tag.params[i].val, <<"c","o","l","o","r">>)
           /\ ~ContainsCaseless(tag.params[i].val,
                                <<"b","a","c","k","g","r","o","u","n","d">>)

\* C10: after rspamd_html_process_block_tag has run for a tag without colour
\* information, the font colour and the background colour of its block are
\* both valid, whatever bgcolor an earlier <body> tag carried
BlockColorsValid ==
  \A t \in 1..Len(tags) :
     (tags[t].extra.kind = "block" /\ NoColorInfo(tags[t])) =>
        /\ tags[t].extra.bl.font_color.valid
        /\ tags[t].extra.bl.background_color.valid


----------------------------------------------------------------------------
(* message.c: the distance between the two text parts of a message *)

\* scaled-down value of max_words (8192 in the source): the combined number
\* of words above which two parts are not compared
max_words == 4

MIN3(a, b, c) == IF a < b THEN (IF a < c THEN a ELSE c) ELSE (IF b < c THEN b ELSE c)

RECURSIVE LevenshteinColumn(_, _, _, _, _, _)
\* the inner for (y = 1, lastdiag = x - 1; y <= s1len; y++) loop from y on
LevenshteinColumn(w1, w2, column, x, y, lastdiag) ==
  IF y > Len(w1) THEN column
  ELSE LevenshteinColumn(w1, w2,
         [column EXCEPT ![y] = MIN3(column[y] + 1, column[y - 1] + 1,
                                    lastdiag + ((IF w1[y] = w2[x] THEN 1 ELSE 0) * 2))],
         x, y + 1, column[y])

RECURSIVE LevenshteinRows(_, _, _, _)
\* the outer for (x = 1; x <= s2len; x++) loop from x on
LevenshteinRows(w1, w2, column, x) ==
  IF x > Len(w2) THEN column
  ELSE LevenshteinRows(w1, w2,
         LevenshteinColumn(w1, w2, [column EXCEPT ![0] = x], x, 1, x - 1),
         x + 1)

\* rspamd_words_levenshtein_distance (task, w1, w2)
rspamd_words_levenshtein_distance(w1, w2) ==
  IF Len(w1) + Len(w2) > max_words
  THEN 0
  ELSE LevenshteinRows(w1, w2, [y \in 0..Len(w1) |-> y], 1)[Len(w1)]

\* rspamd_message_parse, "Calculate distance for 2-parts messages": the
\* message afterwards.  parts_distance is the pair <<dw, tw>> of the
\* quotient dw / tw, <<>> while the pool variable is not set
PartsDistance(m) ==
  LET tw == Len(m.w1) + Len(m.w2)
      Recorded(dw) == [m EXCEPT !.parts_distance = <<dw, tw>>, !.total_words = tw]
  IN  IF m.text_parts = 2 /\ m.alternative /\ ~m.empty /\ tw > 0
      THEN Recorded(rspamd_words_levenshtein_distance(m.w1, m.w2))
      ELSE m

\* number of words of a part in the inputs
MaxPartWords == 3

\* the normalized_hashes of a part: sequences of word hashes
WordSeqs == UNION {[1..k -> {1, 2}] : k \in 0..MaxPartWords}

InitWords ==
  /\ msg \in {[MsgIdle EXCEPT !.w1 = a, !.w2 = b, !.text_parts = n,
                               !.alternative = alt, !.empty = e,
                               !.called = FALSE, !.parsed = FALSE] :
                 a \in WordSeqs, b \in WordSeqs, n \in {1, 2},
                 alt \in BOOLEAN, e \in BOOLEAN}
  /\ lib = LibIdle
  /\ doc = DocStart(<<>>)
  /\ hc = HcStart
  /\ tags = <<>>
  /\ nodes = <<>>
  /\ urls = UrlsStart
  /\ trace = TraceStart
  /\ dec = DecIdle
  /\ ph = PhIdle

\* rspamd_words_levenshtein_distance called on the hashes of the two parts
call_words_levenshtein_distance ==
  /\ ~msg.called
  /\ msg' = [msg EXCEPT !.called = TRUE,
                        !.ret = rspamd_words_levenshtein_distance(msg.w1, msg.w2)]
  /\ UNCHANGED <<dec, doc, hc, tags, nodes, urls, ph, lib, trace>>

\* the parts-distance block of rspamd_message_parse
message_parse_distance ==
  /\ ~msg.parsed
  /\ msg' = [PartsDistance(msg) EXCEPT !.parsed = TRUE]
  /\ UNCHANGED <<dec, doc, hc, tags, nodes, urls, ph, lib, trace>>

NextWords ==
  \/ call_words_levenshtein_distance
  \/ message_parse_distance

SpecWords == InitWords /\ [][NextWords]_vars

RECURSIVE EditDistance(_, _)
\* the weighted edit distance: keeping an equal hash costs 0, substituting a
\* different hash costs 2, inserting or deleting a hash costs 1
EditDistance(a, b) ==
  IF a = <<>> THEN Len(b)
  ELSE IF b = <<>> THEN Len(a)
  ELSE MIN3(EditDistance(Tail(a), b) + 1,
            EditDistance(a, Tail(b)) + 1,
            EditDistance(Tail(a), Tail(b)) + (IF Head(a) = Head(b) THEN 0 ELSE 2))

\* C11: for two word-hash sequences whose combined length is at most
\* max_words, rspamd_words_levenshtein_distance returns the weighted edit
\* distance (substitution 2, insertion and deletion 1, equal hashes 0)
DistanceIsWeightedEdit ==
  (msg.called /\ Len(msg.w1) + Len(msg.w2) <= max_words) =>
     msg.ret = EditDistance(msg.w1, msg.w2)

\* C12: when the combined word count of the two parts exceeds max_words, no
\* parts_distance value is recorded for the message
SkippedDistanceNotRecorded ==
  (msg.parsed /\ Len(msg.w1) + Len(msg.w2) > max_words) =>
     msg.parts_distance = <<>>

----------------------------------------------------------------------------
(* Properties of the decoder's output *)

\* the bytes returned by a finished run of the decoder
DecodeOutput == SubSeq(dec.s, 1, dec.t)

\* an & that is followed later by a ;
HasEntityLeft(d) ==
  \E i \in 1..Len(d) : \E j \in (i + 1)..Len(d) : d[i] = "&" /\ d[j] = ";"

\* decoding d again returns exactly d
DecodesToItself(d) ==
  /\ rspamd_html_decode_entitles_inplace(d, Len(d)).len = Len(d)
  /\ SubSeq(rspamd_html_decode_entitles_inplace(d, Len(d)).s, 1, Len(d)) = d

\* C13: when the output of the decoder contains no & that is followed later
\* by a ;, decoding the output again returns the same length and bytes
DecodeFixedPoint ==
  (dec.h >= dec.l /\ ~HasEntityLeft(DecodeOutput)) => DecodesToItself(DecodeOutput)

\* the bytes the step has appended at the write position
Emitted == SubSeq(dec'.s, dec.t + 1, dec'.t)

\* the step closes the token between & and ; whose name is exactly the name
\* of row i of the table
ClosesNamed(i) ==
  /\ dec.state = 1
  /\ dec.s[dec.h + 1] = ";"
  /\ dec.h > dec.e
  /\ Span(dec.s, dec.e + 1, dec.h) = entities_defs[i].name

\* C14: a well-formed named entity that has a replacement in the table is
\* replaced by exactly that replacement, and a byte outside an entity is
\* copied unchanged
DecodeReplacesExactly ==
  [][/\ \A i \in 1..Len(entities_defs) :
          (ClosesNamed(i) /\ entities_defs[i].has_rep) =>
             Emitted = entities_defs[i].replacement
     /\ (dec.state = 0 /\ dec.s[dec.h + 1] # "&") => Emitted = <<dec.s[dec.h + 1]>>]_vars

----------------------------------------------------------------------------
(* The "phishing" tag *)

\* the "phishing" tags of a URL record
PhishingTags(url) == {url.tags[i].value : i \in {j \in 1..Len(url.tags) :
                                                    url.tags[j].name = "phishing"}}

\* C15 (as stated): when the href URL is flagged, the "phishing" tag that is
\* attached carries the TLD of the displayed URL
PhishingTagIsDisplayedTld ==
  (ph.called /\ "PHISHED" \in ph.recs[1].flags) =>
     /\ ph.text_url # 0
     /\ \A k \in 1..Len(ph.recs) :
           PhishingTags(ph.recs[k]) \subseteq {ph.recs[ph.text_url].tld}
     /\ \E k \in 1..Len(ph.recs) : PhishingTags(ph.recs[k]) # {}

\* C15 (amended): when the href URL is flagged, one "phishing" tag is
\* attached to the displayed URL and it carries the TLD of the href URL; the
\* href URL itself gets no tag
PhishingTagIsHrefTld ==
  (ph.called /\ "PHISHED" \in ph.recs[1].flags) =>
     /\ ph.text_url # 0
     /\ ph.recs[1].phished_url = ph.text_url
     /\ PhishingTags(ph.recs[ph.text_url]) = {ph.recs[1].tld}
     /\ PhishingTags(ph.recs[1]) = {}

\* the detector has flagged an href URL whose TLD differs from the TLD of
\* the displayed URL
FlaggedWithOtherTld ==
  /\ ph.called
  /\ "PHISHED" \in ph.recs[1].flags
  /\ ph.text_url # 0
  /\ ph.recs[ph.text_url].tld # ph.recs[1].tld

----------------------------------------------------------------------------
(* The static tables and their one-shot latches *)

\* static sig_atomic_t tags_sorted = 0, entities_sorted = 0: the library
\* when the process starts
LibStart == [tags_sorted |-> 0, entities_sorted |-> 0,
             sorts |-> [tb \in Tables |-> 0],
             searched |-> {}, early |-> {}, parts |-> 0, log |-> <<>>]

\* qsort of a table
Qsort(l, tb) == [l EXCEPT !.sorts[tb] = @ + 1]

\* rspamd_html_library_init (void)
rspamd_html_library_init(l) ==
  LET Entities(l1) ==
        IF l1.entities_sorted = 0
        THEN [Qsort(Qsort(l1, "entities_defs"), "entities_defs_num")
                EXCEPT !.entities_sorted = 1]
        ELSE l1
  IN  Entities(IF l.tags_sorted = 0
               THEN [Qsort(Qsort(l, "tag_defs"), "tag_defs_num")
                       EXCEPT !.tags_sorted = 1]
               ELSE l)

\* bsearch on the tables of tbs
Bsearch(l, tbs) ==
  [l EXCEPT !.searched = @ \cup tbs,
            !.early = @ \cup {tb \in tbs : l.sorts[tb] = 0}]

\* the tables that one iteration of the decoder searches; found is the row
\* returned by the by-name bsearch (0: none)
DecodeStepSearches(d, found) ==
  LET c2   == d.s[d.e + 3]
      base == IF c2 \in {"x", "X"} THEN 16
              ELSE IF c2 \in {"o", "O"} THEN 8
              ELSE 10
      Converted(str, r) == IF r.used < Len(str) THEN {} ELSE {"entities_defs_num"}
      Numbered(str) == Converted(str, strtoul(str, base))
      ByName == IF d.s[d.e + 2] # "#" THEN {"entities_defs"} ELSE {}
  IN  IF d.state = 1 /\ d.s[d.h + 1] = ";" /\ d.h > d.e
      THEN ByName \cup
           (IF found = 0 /\ d.e + 2 < d.h
            THEN Numbered(IF base = 10 THEN Span(d.s, d.e + 2, d.h)
                          ELSE Span(d.s, d.e + 3, d.h))
            ELSE {})
      ELSE {}

\* the tables that rspamd_html_decode_entitles_inplace searches on the way;
\* miss: the by-name search of a table that is not sorted finds nothing
RECURSIVE DecodeSearches(_, _)
DecodeSearches(d, miss) ==
  LET Step(found) == DecodeStepSearches(d, found)
                       \cup DecodeSearches(DecodeStep(d, found), miss)
  IN  IF d.h < d.l
      THEN Step(IF miss THEN 0 ELSE FirstFound(d))
      ELSE {}

\* inputs of the decoder
LibDecInputs ==
  {<<"x">>,
   <<"&", "a", "m", "p", ";">>,
   <<"&", "#", "6", "5", ";">>,
   <<"&", "a", "1", ";">>,
   <<"&", "a", "m", "p", ";", "&", "#", "x", "4", "1", ";">>}

\* names and ids for the tag look-ups
LibTagNames == {"a", "zz"}

LibTagIds == {0, 1}

\* a call is recorded in the log
Logged(l, op) == [l EXCEPT !.log = Append(@, op)]

\* the number of calls of one run
MaxCalls == 3

LibCall == Len(lib.log) < MaxCalls

InitLib ==
  /\ dec = DecodeStart(<<>>, 0)
  /\ doc = DocStart(<<>>)
  /\ hc = HcStart
  /\ tags = <<>>
  /\ nodes = <<>>
  /\ urls = UrlsStart
  /\ trace = TraceStart
  /\ ph = PhIdle
  /\ msg = MsgIdle
  /\ lib = LibStart

\* rspamd_html_tag_by_name (name)
call_tag_by_name ==
  /\ LibCall
  /\ \E name \in LibTagNames :
       lib' = Logged(Bsearch(lib, {"tag_defs"}), "tag_by_name")
  /\ UNCHANGED <<dec, doc, hc, tags, nodes, urls, ph, msg, trace>>

\* rspamd_html_tag_seen (hc, tagname); g_assert (hc->tags_seen != NULL): the
\* content comes from a processed part
call_tag_seen ==
  /\ LibCall
  /\ lib.parts > 0
  /\ \E name \in LibTagNames :
       lib' = Logged(Bsearch(lib, {"tag_defs"}), "tag_seen")
  /\ UNCHANGED <<dec, doc, hc, tags, nodes, urls, ph, msg, trace>>

\* rspamd_html_tag_by_id (id)
call_tag_by_id ==
  /\ LibCall
  /\ \E id \in LibTagIds :
       lib' = Logged(Bsearch(lib, {"tag_defs_num"}), "tag_by_id")
  /\ UNCHANGED <<dec, doc, hc, tags, nodes, urls, ph, msg, trace>>

\* rspamd_html_decode_entitles_inplace (s, len)
call_decode_entitles_inplace ==
  /\ LibCall
  /\ \E s \in LibDecInputs :
       \E miss \in {FALSE, lib.entities_sorted = 0} :
         lib' = Logged(Bsearch(lib, DecodeSearches(DecodeStart(s, Len(s)), miss)),
                       "decode_entitles_inplace")
  /\ UNCHANGED <<dec, doc, hc, tags, nodes, urls, ph, msg, trace>>

\* rspamd_html_process_part_full (pool, hc, in, ...): the library is
\* initialised, then the tables that the document needs are searched
\* (tag names in tag_defs, entities through the decoder)
call_process_part_full ==
  /\ LibCall
  /\ \E used \in SUBSET {"tag_defs", "entities_defs", "entities_defs_num"} :
       LET Parsed(l) == [Bsearch(l, used) EXCEPT !.parts = Min(@ + 1, MaxCalls)]
       IN  lib' = Logged(Parsed(rspamd_html_library_init(lib)), "process_part_full")
  /\ UNCHANGED <<dec, doc, hc, tags, nodes, urls, ph, msg, trace>>

NextLib ==
  \/ call_tag_by_name
  \/ call_tag_seen
  \/ call_tag_by_id
  \/ call_decode_entitles_inplace
  \/ call_process_part_full

SpecLib == InitLib /\ [][NextLib]_vars

\* C16: every table that has been searched was sorted exactly once, and no
\* search of a table took place before the table was sorted
SortedOnceBeforeSearch ==
  \A tb \in Tables : tb \in lib.searched => (lib.sorts[tb] = 1 /\ tb \notin lib.early)

----------------------------------------------------------------------------
(* The shared URL tables *)

MaxUrlPieces == 3

UrlPieces ==
  {<<"<","a"," ","h","r","e","f","=","h","t","t","p",":","/","/","a",".","b",">">>,
   <<"<","a"," ","h","r","e","f","=","m","a","i","l","t","o",":","u","@","a",".","b",">">>,
   <<"<","a"," ","h","r","e","f","=","h","t","t","p",":","/","/","c",".","d","?",
     "h","t","t","p",":","/","/","a",".","b",">">>,
   <<"h","t","t","p",":","/","/","a",".","b">>,
   <<"<","/","a",">">>}

UrlDocs == Pieces(UrlPieces, MaxUrlPieces)

InitUrls == InitDocs(UrlDocs \cup {CoverDoc})

SpecUrls == InitUrls /\ [][Next]_vars

\* the records of both tables
Registered == urls.urls \cup urls.emails

RECURSIVE CountSum(_)
\* the sum of the counts of the records of ks
CountSum(ks) ==
  IF ks = {} THEN 0
  ELSE LET k == CHOOSE x \in ks : TRUE
       IN  urls.recs[k].count + CountSum(ks \ {k})

\* C17: each table holds at most one record per URL identity; of the
\* look-ups so far, each either inserted a record of a new identity or added
\* one to the count of the record found, so the inserts and the counts
\* add up to the look-ups; mailto URLs are in the email table only and all
\* other URLs in the URL table only
OneRecordPerUrl ==
  /\ \A tb \in {"urls", "emails"} :
        \A j, k \in urls[tb] : urls.recs[j].string = urls.recs[k].string => j = k
  /\ urls.urls \cap urls.emails = {}
  /\ Cardinality(Registered) + CountSum(Registered) = trace.regs
  /\ \A k \in urls.urls : urls.recs[k].protocol # "mailto"
  /\ \A k \in urls.emails : urls.recs[k].protocol = "mailto"

\* an email address is in its table and a URL has been seen again
MailtoAndRepeatedUrl ==
  /\ urls.emails # {}
  /\ \E k \in urls.urls : urls.recs[k].count >= 1

----------------------------------------------------------------------------
(* message.c: post-processing of an HTML text part *)

g_ascii_isalnum(c) == g_ascii_isalpha(c) \/ g_ascii_isdigit(c)

g_ascii_ispunct(c) == g_ascii_isgraph(c) /\ ~g_ascii_isalnum(c)

\* the locals of rspamd_strip_newlines_parse on entry; out is
\* part->stripped_content, newlines is part->newlines (offsets)
StripStart ==
  [p |-> 0, c |-> 0, last_c |-> "0", crlf_added |-> FALSE, state |-> "normal_char",
   out |-> <<>>, newlines |-> <<>>]

\* g_byte_array_append (part->stripped_content, c, p - c), with last_c
StripFlush(s, n) ==
  IF n.p > n.c
  THEN [n EXCEPT !.last_c = s[n.p], !.out = @ \o SubSeq(s, n.c + 1, n.p)]
  ELSE n

\* a space is appended and its end is recorded as a newline
StripSpaceNewline(n) ==
  [n EXCEPT !.out = Append(@, " "),
            !.crlf_added = TRUE,
            !.newlines = Append(@, Len(n.out) + 1)]

\* while (p < pe && *p == ' ') { p ++; c ++; }
RECURSIVE StripSkipSpaces(_, _)
StripSkipSpaces(s, n) ==
  IF n.p < Len(s) /\ s[n.p + 1] = " "
  THEN StripSkipSpaces(s, [n EXCEPT !.p = @ + 1, !.c = @ + 1])
  ELSE n

\* one iteration of the while loop of rspamd_strip_newlines_parse, the
\* statistics of the part left out
StripStep(s, n, is_html) ==
  LET t == s[n.p + 1]
      Advanced(n1) == [n1 EXCEPT !.p = @ + 1]
      Restart(n2) == [n2 EXCEPT !.c = n.p + 1]
      Cr ==
        IF n.state = "normal_char"
        THEN Restart([StripFlush(s, n) EXCEPT !.state = "seen_cr",
                                              !.crlf_added = FALSE])
        ELSE IF n.state = "seen_cr"
        THEN Restart(IF ~n.crlf_added THEN StripSpaceNewline(n) ELSE n)
        ELSE Restart([n EXCEPT !.state = "seen_cr"])
      Spaced(n3) ==
        IF is_html \/ g_ascii_ispunct(n3.last_c)
        THEN StripSpaceNewline(n3)
        ELSE [n3 EXCEPT !.crlf_added = FALSE]
      CrLf ==
        IF n.crlf_added THEN n
        ELSE IF is_html \/ g_ascii_ispunct(n.last_c)
        THEN StripSpaceNewline(n)
        ELSE [n EXCEPT !.newlines = Append(@, Len(n.out))]
      Lf ==
        IF n.state = "normal_char"
        THEN Spaced(Restart([StripFlush(s, n) EXCEPT !.state = "seen_lf"]))
        ELSE IF n.state = "seen_cr"
        THEN Restart([CrLf EXCEPT !.state = "seen_lf"])
        ELSE Restart(IF ~n.crlf_added THEN StripSpaceNewline(n) ELSE n)
      Marked(n4) ==
        IF ~n.crlf_added THEN [n4 EXCEPT !.newlines = Append(@, Len(n.out))] ELSE n4
      Indented(n5) ==
        IF t = " "
        THEN StripSkipSpaces(s, IF ~n.crlf_added
                                THEN [n5 EXCEPT !.out = Append(@, " ")]
                                ELSE n5)
        ELSE n5
      Other ==
        IF n.state = "normal_char" THEN n
        ELSE [Indented(Marked(n)) EXCEPT !.state = "normal_char"]
  IN  Advanced(IF t = "\r" THEN Cr ELSE IF t = "\n" THEN Lf ELSE Other)

\* the "Leftover" block after the loop
StripLeftover(s, n) ==
  LET Cut(n1) ==
        IF n1.state = "normal_char"
        THEN [n1 EXCEPT !.out = @ \o SubSeq(s, n1.c + 1, n1.p)]
        ELSE IF ~n1.crlf_added
        THEN [n1 EXCEPT !.out = Append(@, " "),
                        !.newlines = Append(@, Len(n1.out) + 1)]
        ELSE n1
  IN  IF n.p > n.c
      THEN Cut(IF n.p > Len(s) THEN [n EXCEPT !.p = Len(s)] ELSE n)
      ELSE n

RECURSIVE StripRun(_, _, _)
StripRun(s, n, is_html) ==
  IF n.p < Len(s) THEN StripRun(s, StripStep(s, n, is_html), is_html)
  ELSE StripLeftover(s, n)

\* rspamd_strip_newlines_parse (begin, pe, part)
rspamd_strip_newlines_parse(s, is_html) == StripRun(s, StripStart, is_html)

RECURSIVE PrependNewlines(_, _, _)
\* the for loop of rspamd_normalize_text_part: one exception per newline,
\* each prepended to part->exceptions
PrependNewlines(newlines, i, exceptions) ==
  IF i > Len(newlines) THEN exceptions
  ELSE PrependNewlines(newlines, i + 1,
         <<[pos |-> newlines[i], len |-> 0, type |-> "NEWLINE"]>> \o exceptions)

\* rspamd_normalize_text_part (task, part)
rspamd_normalize_text_part(m, content, is_html) ==
  LET Stripped(n) ==
        [m EXCEPT !.stripped_content = n.out,
                  !.newlines = n.newlines,
                  !.exceptions = PrependNewlines(n.newlines, 1, m.exceptions)]
  IN  Stripped(rspamd_strip_newlines_parse(content, is_html))

\* exceptions_compare_func (a, b)
exceptions_compare_func(ea, eb) == ea.pos - eb.pos

RECURSIVE ListInsert(_, _)
\* e goes after the elements of the sorted list that do not compare greater
ListInsert(l, e) ==
  IF l = <<>> THEN <<e>>
  ELSE IF exceptions_compare_func(Head(l), e) <= 0
  THEN <<Head(l)>> \o ListInsert(Tail(l), e)
  ELSE <<e>> \o l

RECURSIVE g_list_sort(_)
\* g_list_sort (list, exceptions_compare_func): a stable sort
g_list_sort(l) ==
  IF l = <<>> THEN <<>>
  ELSE ListInsert(g_list_sort(SubSeq(l, 1, Len(l) - 1)), l[Len(l)])

MaxPartPieces == 4

PartPieces ==
  {<<"x">>, <<" ">>, <<"<","b","r",">">>, <<"<","/","a",">">>,
   <<"<","a"," ","h","r","e","f","=","h","t","t","p",":","/","/","a",".","b",">",
     "h","t","t","p",":","/","/","c",".","d">>}

PartDocs == Pieces(PartPieces, MaxPartPieces)

\* rspamd_message_process_text_part has called the HTML parser on the
\* content of a text/html part
InitPart ==
  /\ doc \in {DocStart(d) : d \in PartDocs \cup {CoverDoc}}
  /\ hc = HcStart
  /\ tags = <<>>
  /\ nodes = <<>>
  /\ urls = UrlsStart
  /\ trace = TraceStart
  /\ dec = DecIdle
  /\ ph = PhIdle
  /\ msg = [MsgIdle EXCEPT !.normalized = FALSE]
  /\ lib = LibIdle

\* rspamd_message_process_text_part after rspamd_html_process_part_full has
\* returned: text_part->exceptions holds the URL exceptions, the part is
\* normalised and its exceptions are sorted (no GTUBE pattern in the part)
message_process_text_part ==
  /\ ~msg.normalized
  /\ doc.p >= Len(doc.in)
  /\ ~trace.abort
  /\ LET Sorted(m) == [m EXCEPT !.exceptions = g_list_sort(@), !.normalized = TRUE]
     IN  msg' = IF Len(doc.in) = 0
                THEN [msg EXCEPT !.normalized = TRUE]
                ELSE Sorted(rspamd_normalize_text_part(
                              [msg EXCEPT !.exceptions = doc.exceptions],
                              doc.dest, TRUE))
  /\ UNCHANGED <<dec, doc, hc, tags, nodes, urls, ph, lib, trace>>

NextPart ==
  \/ DocNext
  \/ message_process_text_part

SpecPart == InitPart /\ [][NextPart]_vars

\* C18: once the part is post-processed, every exception lies inside the
\* stripped content and the list is sorted by position
ExceptionsInsideStripped ==
  msg.normalized =>
     /\ \A i \in 1..Len(msg.exceptions) :
           /\ 0 <= msg.exceptions[i].pos
           /\ msg.exceptions[i].pos + msg.exceptions[i].len <= Len(msg.stripped_content)
     /\ \A i \in 1..(Len(msg.exceptions) - 1) :
           msg.exceptions[i].pos <= msg.exceptions[i + 1].pos

----------------------------------------------------------------------------
(* The end of the input *)

\* the loop of rspamd_html_process_part_full is over: dest is returned
Returned == doc.p >= Len(doc.in) /\ ~trace.abort

\* the run of text between c and p, as it would be appended
PendingRun ==
  LET run == SubSeq(doc.in, doc.c + 1, doc.p)
      Decoded(r) == SubSeq(r.s, 1, r.len)
  IN  IF doc.need_decode
      THEN Decoded(rspamd_html_decode_entitles_inplace(run, Len(run)))
      ELSE run

\* s ends with the bytes of e
EndsWith(s, e) ==
  /\ Len(e) <= Len(s)
  /\ SubSeq(s, Len(s) - Len(e) + 1, Len(s)) = e

\* C19: when the input ends in content_write with a pending run of text, the
\* returned output ends with that run, decoded if needed
PendingRunFlushed ==
  (Returned /\ doc.state = "content_write" /\ doc.c < doc.p) =>
     EndsWith(doc.dest, PendingRun)

----------------------------------------------------------------------------
(* The balance check of a closing tag *)

RECURSIVE PathUp(_, _)
\* the nodes from n up to the root, the nearest first
PathUp(ns, n) == IF n = 0 THEN <<>> ELSE <<n>> \o PathUp(ns, ns[n].parent)

\* the parser is about to process a closing tag of a known non-inline
\* element and the tag cap is not reached
ClosingBelowCap ==
  /\ Running("tag_end")
  /\ doc.cur_tag # 0
  /\ tags[doc.cur_tag].id # "-1"
  /\ "FL_CLOSING" \in tags[doc.cur_tag].flags
  /\ "CM_INLINE" \notin tags[doc.cur_tag].flags
  /\ hc.total_tags < max_tags

\* the open cursor that the balance check starts from: the root when the
\* tree is created by this very tag
OpenCursor == IF hc.html_tags = 0 THEN Len(nodes) + 1 ELSE doc.cur_level

\* the positions of the path from the cursor up that hold an element of the
\* id of the closing tag that is not marked closed
OpenLike(path) ==
  {i \in 1..Len(path) :
      /\ nodes[path[i]].data # 0
      /\ tags[nodes[path[i]].data].id = tags[doc.cur_tag].id
      /\ "FL_CLOSED" \notin tags[nodes[path[i]].data].flags}

\* what the step leaves for the ancestor anc that is selected (0: none)
BalanceOutcome(anc) ==
  IF anc # 0
  THEN /\ "FL_CLOSED" \in tags'[nodes[anc].data].flags
       /\ Len(nodes') = Len(nodes) + 1
       /\ nodes'[Len(nodes')].data = doc.cur_tag
       /\ ~nodes'[Len(nodes')].alive
       /\ doc'.cur_level = nodes[anc].parent
       /\ doc'.balanced
       /\ ("UNBALANCED" \in hc'.flags) = ("UNBALANCED" \in hc.flags)
  ELSE /\ "UNBALANCED" \in hc'.flags
       /\ ~doc'.balanced
       /\ doc'.cur_level = OpenCursor

\* the nearest position of a set of positions of a path (0: none)
Nearest(path, is) ==
  IF is = {} THEN 0 ELSE path[CHOOSE i \in is : \A j \in is : i <= j]

\* C20: a closing tag of a non-inline element below the cap closes the
\* nearest ancestor, from the cursor upwards, of its id that is not marked
\* closed: the ancestor is marked closed, the closing node is removed, the
\* cursor becomes the parent of the ancestor and the tag is balanced; when
\* there is no such ancestor the unbalanced flag is set, the tag is not
\* balanced and the cursor stays
ClosingTagBalance ==
  [][ClosingBelowCap =>
       BalanceOutcome(IF hc.html_tags = 0 THEN 0
                      ELSE Nearest(PathUp(nodes, doc.cur_level),
                                   OpenLike(PathUp(nodes, doc.cur_level))))]_vars

\* below the cap one closing tag has closed an ancestor that was not the
\* cursor itself, and another one has found nothing to close
ClosedAboveAndStray ==
  /\ hc.total_tags <= max_tags
  /\ "UNBALANCED" \in hc.flags
  /\ \E i \in 1..Len(trace.closes) : trace.closes[i].got = 0
  /\ \E i \in 1..Len(trace.closes) :
        trace.closes[i].got # 0 /\ trace.closes[i].got # trace.closes[i].own

----------------------------------------------------------------------------
(* An element opened inside an unclosed element of its own name *)

\* the parser is about to process an opening tag of a known non-inline
\* element while the cursor is an element of the same id without FL_BLOCK
SameNameOpening ==
  /\ Running("tag_end")
  /\ doc.cur_tag # 0
  /\ tags[doc.cur_tag].id # "-1"
  /\ tags[doc.cur_tag].flags \cap {"FL_CLOSING", "FL_CLOSED", "CM_INLINE"} = {}
  /\ hc.html_tags # 0
  /\ doc.cur_level # 0
  /\ nodes[doc.cur_level].data # 0
  /\ tags[nodes[doc.cur_level].data].id = tags[doc.cur_tag].id
  /\ "FL_BLOCK" \notin tags[nodes[doc.cur_level].data].flags

\* the new node is a sibling of the cursor and becomes the cursor, and the
\* document is unbalanced
OpenedAsSibling ==
  /\ Len(nodes') = Len(nodes) + 1
  /\ nodes'[Len(nodes')].data = doc.cur_tag
  /\ nodes'[Len(nodes')].alive
  /\ nodes'[Len(nodes')].parent = nodes[doc.cur_level].parent
  /\ doc'.cur_level = Len(nodes')
  /\ "UNBALANCED" \in hc'.flags
  /\ ~doc'.balanced

\* C21 (as stated): a tag opened while the cursor is a tag of the same id
\* without FL_BLOCK is appended as a sibling of the cursor, becomes the
\* cursor, and the document is flagged and reported unbalanced
SameNameBecomesSibling == [][SameNameOpening => OpenedAsSibling]_vars

\* C21 (amended): the same while fewer than max_tags tags have been counted
SameNameBecomesSiblingBelowCap ==
  [][(SameNameOpening /\ hc.total_tags < max_tags) => OpenedAsSibling]_vars

\* the cursor is an element that was opened as the sibling of an element of
\* its own name
SiblingOfSameName ==
  /\ trace.selfnest
  /\ ~doc.balanced
  /\ doc.cur_level # 0
  /\ nodes[doc.cur_level].data # 0
  /\ \E m \in 1..(doc.cur_level - 1) :
        /\ nodes[m].data # 0
        /\ nodes[m].alive
        /\ nodes[m].parent = nodes[doc.cur_level].parent
        /\ tags[nodes[m].data].id = tags[nodes[doc.cur_level].data].id
        /\ "FL_CLOSED" \notin tags[nodes[m].data].flags

----------------------------------------------------------------------------
(* The shape of the tag tree *)

RECURSIVE ClimbsToRoot(_, _)
\* from the live node n the parents lead to the root in at most fuel steps,
\* through live nodes only
ClimbsToRoot(n, fuel) ==
  IF n = hc.html_tags THEN nodes[n].alive /\ nodes[n].parent = 0
  ELSE /\ fuel > 0
       /\ n \in 1..Len(nodes)
       /\ nodes[n].alive
       /\ nodes[n].parent # 0
       /\ ClimbsToRoot(nodes[n].parent, fuel - 1)

\* C22: the tag tree is a rooted tree, and the open cursor is unset or a live
\* node of it
TreeRootedCursorLive ==
  /\ hc.html_tags = 0 => (nodes = <<>> /\ doc.cur_level = 0)
  /\ hc.html_tags # 0 =>
        /\ hc.html_tags \in 1..Len(nodes)
        /\ nodes[hc.html_tags].data = 0
        /\ \A n \in 1..Len(nodes) : nodes[n].alive => ClimbsToRoot(n, Len(nodes))
        /\ doc.cur_level \in 1..Len(nodes)
        /\ ClimbsToRoot(doc.cur_level, Len(nodes))

\* a closing node has been discarded after an element was opened as a
\* sibling of its like, and the cursor is below the root
RepairedBelowRoot ==
  /\ trace.selfnest
  /\ \E n \in 1..Len(nodes) : ~nodes[n].alive
  /\ doc.cur_level # 0
  /\ doc.cur_level # hc.html_tags

----------------------------------------------------------------------------
(* Elements that must appear once *)

MaxUniquePieces == 3

UniquePieces ==
  {<<"<","h","t","m","l",">">>, <<"<","/","h","t","m","l",">">>,
   <<"<","b","o","d","y",">">>, <<"<","/","b","o","d","y",">">>,
   <<"x">>}

UniqueDocs == Pieces(UniquePieces, MaxUniquePieces)

InitUnique == InitDocs(UniqueDocs \cup {CoverDoc})

SpecUnique == InitUnique /\ [][Next]_vars

\* the documents in which one must-appear-once element occurs exactly once,
\* as an opening tag followed later by its closing tag
OnceDocs ==
  {<<"<">> \o name \o <<">">> \o mid \o <<"<", "/">> \o name \o <<">">> :
      name \in {<<"h","t","m","l">>, <<"b","o","d","y">>},
      mid \in {<<>>, <<"x">>}}

\* C23: a document in which a must-appear-once element occurs exactly once,
\* as one opening tag followed later by its closing tag, never gets the
\* duplicate-elements flag
NoDuplicateForSingleElement ==
  doc.in \in OnceDocs => "DUPLICATE_ELEMENTS" \notin hc.flags

----------------------------------------------------------------------------
(* Synthesised line breaks *)

MaxLinePieces == 4

LinePieces ==
  {<<"<","b","r",">">>, <<"<","d","i","v",">">>, <<"<","/","d","i","v",">">>,
   <<"x">>, <<"&","#","1","0",";">>}

LineDocs == Pieces(LinePieces, MaxLinePieces)

InitLines == InitDocs(LineDocs \cup {CoverDoc})

SpecLines == InitLines /\ [][Next]_vars

CRLF == <<"\r", "\n">>

\* the step processes a <br> or <hr> tag, or a closing </p>, </tr> or </div>
\* that is balanced
NewlineStep ==
  /\ Running("tag_end")
  /\ doc.cur_tag # 0
  /\ \/ tags[doc.cur_tag].id \in {"Tag_BR", "Tag_HR"}
     \/ /\ "FL_CLOSING" \in tags[doc.cur_tag].flags
        /\ tags[doc.cur_tag].id \in {"Tag_P", "Tag_TR", "Tag_DIV"}
        /\ doc'.balanced

----------------------------------------------------------------------------
(* Whitespace in the output *)

MaxSpacePieces == 5

SpacePieces ==
  {<<" ">>, <<"\n">>, <<"x">>, <<"<","b","r",">">>, <<"<","b",">">>}

SpaceDocs == Pieces(SpacePieces, MaxSpacePieces)

InitSpaces == InitDocs(SpaceDocs \cup {CoverDoc})

SpecSpaces == InitSpaces /\ [][Next]_vars

\* s has nowhere two adjacent whitespace bytes, the pair CR LF apart, and
\* does not begin with a space
SingleSpaced(s) ==
  /\ (s # <<>> => s[1] # " ")
  /\ \A i \in 1..(Len(s) - 1) :
        (g_ascii_isspace(s[i]) /\ g_ascii_isspace(s[i + 1]))
           => (s[i] = "\r" /\ s[i + 1] = "\n")

\* C25: for an input without "&" the output is single-spaced after every
\* step, and a step appends a space only in content_write, on a content
\* byte, to an output that is not empty and does not end in whitespace
WhitespaceCollapsed ==
  [][(\A i \in 1..Len(doc.in) : doc.in[i] # "&") =>
        /\ SingleSpaced(doc'.dest)
        /\ (doc'.dest = doc.dest \o <<" ">>) =>
              /\ doc.state = "content_write"
              /\ ~g_ascii_isspace(Byte)
              /\ Byte # "<"
              /\ doc.save_space
              /\ doc.dest # <<>>
              /\ ~g_ascii_isspace(doc.dest[Len(doc.dest)])]_vars

\* a run of two whitespace bytes between two words has given one space,
\* and a line break was synthesised
SpacesCollapsedToOne ==
  /\ Len(doc.dest) >= 5
  /\ SubSeq(doc.dest, 1, 5) = <<"x", " ", "x", "\r", "\n">>
  /\ Len(doc.in) >= 5
  /\ SubSeq(doc.in, 1, 4) = <<"x", " ", "\n", "x">>

----------------------------------------------------------------------------
(* Malformed tag content *)

\* the byte makes the tag-content parser give the tag up for one of the
\* three kinds of malformed content
MalformedEntry ==
  /\ Running("tag_content")
  /\ doc.cur_tag # 0
  /\ doc.substate \in {"parse_start", "parse_name", "spaces_before_eq"}
  /\ doc'.substate = "ignore_bad_tag"

\* C26: malformed tag content puts the tag-content parser into
\* ignore_bad_tag with the bad-elements flag set and the id of the tag -1;
\* the parser stays there for the rest of the tag and adds no component,
\* and no node is created for the tag
MalformedTagIgnored ==
  [][/\ MalformedEntry =>
          /\ "BAD_ELEMENTS" \in hc'.flags
          /\ tags'[doc.cur_tag].id = "-1"
     /\ (/\ Running("tag_content")
         /\ doc.cur_tag # 0
         /\ doc.substate = "ignore_bad_tag"
         /\ doc'.state = "tag_content") =>
          /\ doc'.substate = "ignore_bad_tag"
          /\ tags'[doc.cur_tag].params = tags[doc.cur_tag].params
     /\ (/\ Running("tag_end")
         /\ doc.cur_tag # 0
         /\ "FL_BROKEN" \in tags[doc.cur_tag].flags) =>
          trace.created' = trace.created]_vars

----------------------------------------------------------------------------
(* Attributes without a value *)

MaxValuelessPieces == 5

ValuelessPieces == {<<" ">>, <<"=">>, <<"x">>, <<"h","r","e","f">>}

\* <a ...> with every attribute list of the pieces, followed by text
ValuelessDocs ==
  {<<"<","a"," ">> \o body \o <<">", "t">> :
      body \in Pieces(ValuelessPieces, MaxValuelessPieces)}

InitValueless == InitDocs(ValuelessDocs \cup {CoverDoc})

SpecValueless == InitValueless /\ [][Next]_vars

\* <a x href=x>t: an attribute without a value, whitespace, and href with a
\* value
ValuelessThenHref ==
  <<"<","a"," ","x"," ","h","r","e","f","=","x",">","t">>

\* C27: a tag with a valueless attribute followed by whitespace and a
\* further attribute is accepted: the tag-content parser does not enter
\* ignore_bad_tag, bad-elements is not set, and the href after the valueless
\* attribute is captured with its value
ValuelessAttributeAccepted ==
  doc.in = ValuelessThenHref =>
     /\ doc.substate # "ignore_bad_tag"
     /\ "BAD_ELEMENTS" \notin hc.flags
     /\ (doc.p >= Len(doc.in) =>
           /\ FirstHref(tags[1]) # 0
           /\ tags[1].params[FirstHref(tags[1])].val = <<"x">>)

----------------------------------------------------------------------------
(* Attribute names and components *)

MaxNamePieces == 3

NamePieces == {<<"s">>, <<"t">>, <<"y","l","e">>, <<"S","R","C">>, <<"c","l","a","s","s">>}

\* <img N=x>, <p N=x> and <a N=x> for every attribute name N of the pieces
CompDocs ==
  {pre \o name \o <<"=", "x", ">">> :
      pre \in {<<"<","i","m","g"," ">>, <<"<","p"," ">>, <<"<","a"," ">>},
      name \in Pieces(NamePieces, MaxNamePieces) \ {<<>>}}

InitComp == InitDocs(CompDocs \cup {CoverDoc})

SpecComp == InitComp /\ [][Next]_vars

\* the attribute name of a document of CompDocs
AttrNameOf(in) == SubSeq(in, IndexOf(in, " ", 1) + 1, IndexOf(in, "=", 1) - 1)

\* the attribute names that make a component of a tag
AllowedNames(tag) ==
  {<<"s","r","c">>, <<"h","r","e","f">>}
  \cup (IF tag.id = "Tag_IMG"
        THEN {<<"w","i","d","t","h">>, <<"h","e","i","g","h","t">>, <<"s","t","y","l","e">>}
        ELSE {})
  \cup (IF "FL_BLOCK" \in tag.flags
        THEN {<<"c","o","l","o","r">>, <<"s","t","y","l","e">>, <<"c","l","a","s","s">>,
              <<"b","g","c","o","l","o","r">>}
        ELSE {})

\* C28: a tag gets a component only for an attribute whose name is, in full
\* and whatever its case, one of the names allowed for the tag
OnlyAllowedComponents ==
  (doc.in \in CompDocs /\ tags # <<>> /\ tags[1].params # <<>>) =>
     LowerSeq(AttrNameOf(doc.in)) \in AllowedNames(tags[1])

----------------------------------------------------------------------------
(* Tags terminated by "/>" *)

MaxSlashPieces == 5

SlashPieces == {<<"x">>, <<"<", "p">>, <<"<", "d", "i", "v">>, <<"/">>, <<" ">>, <<">">>}

InitSlash == InitDocs(Pieces(SlashPieces, MaxSlashPieces) \cup {CoverDoc})

SpecSlash == InitSlash /\ [][Next]_vars

\* the parser is about to process a known tag that ends in "/>", the slash
\* following the tag name or whitespace
SlashBeforeEnd ==
  /\ Running("tag_end")
  /\ Byte = ">"
  /\ doc.cur_tag # 0
  /\ tags[doc.cur_tag].id # "-1"
  /\ doc.p >= 2
  /\ doc.in[doc.p] = "/"
  /\ g_ascii_isalpha(doc.in[doc.p - 1]) \/ g_ascii_isspace(doc.in[doc.p - 1])

\* the tag is FL_CLOSED, it is not the cursor afterwards, and a <p/> or
\* <div/> after some output leaves the output ending with a newline
ProcessedAsClosed ==
  /\ "FL_CLOSED" \in tags'[doc.cur_tag].flags
  /\ doc'.cur_level # 0 => nodes'[doc'.cur_level].data # doc.cur_tag
  /\ doc.dest # <<>> => EndsWith(doc'.dest, CRLF)

\* C29: a known tag terminated by "/>" is marked FL_CLOSED whether or not
\* whitespace precedes the slash: it does not become the open cursor and
\* <p/> synthesizes a newline as <p /> does
SelfClosedWithoutSpace == [][SlashBeforeEnd => ProcessedAsClosed]_vars

----------------------------------------------------------------------------
(* An anchor opened inside an unclosed anchor *)

MaxReopenPieces == 4

ReopenPieces ==
  {<<"<","a"," ","h","r","e","f","=","h","t","t","p",":","/","/","a",".","b",">">>,
   <<"<","a"," ","h","r","e","f","=","h","t","t","p",":","/","/","c",".","d",">">>,
   <<"<","a",">">>,
   <<"h","t","t","p",":","/","/","c",".","d">>,
   <<"x">>, <<" ">>}

InitReopen == InitDocs(Pieces(ReopenPieces, MaxReopenPieces) \cup {CoverDoc})

SpecReopen == InitReopen /\ [][Next]_vars

\* the parser is about to process an opening <a> while the cursor is an
\* unclosed <a href=H1> that was opened after some output and was followed
\* by more output
AnchorReopened ==
  /\ Running("tag_end")
  /\ doc.cur_tag # 0
  /\ tags[doc.cur_tag].id = "Tag_A"
  /\ tags[doc.cur_tag].flags \cap {"FL_CLOSING", "FL_CLOSED"} = {}
  /\ hc.total_tags < max_tags
  /\ doc.cur_level # 0
  /\ nodes[doc.cur_level].data # 0
  /\ tags[nodes[doc.cur_level].data].id = "Tag_A"
  /\ tags[nodes[doc.cur_level].data].extra.kind # "none"
  /\ trace.anchor.h # <<>>
  /\ trace.anchor.at > 0
  /\ Len(doc.dest) > trace.anchor.at

\* the URL of H1 is handed to rspamd_html_check_displayed_url with the
\* output written since <a href=H1>
PreviousTextChecked ==
  /\ tags[nodes[doc.cur_level].data].extra.url \in trace'.checked
  /\ doc'.href_offset = trace.anchor.at

\* C30: when an <a> is opened while the previous <a href=H1> is unclosed,
\* the text emitted between the two openings is handed to the phishing
\* detector with H1, also when the new anchor has a parseable href
UnclosedAnchorTextChecked == [][AnchorReopened => PreviousTextChecked]_vars

\* the same for a new anchor without href
UnclosedAnchorTextCheckedPlain ==
  [][(AnchorReopened /\ tags[doc.cur_tag].params = <<>>) => PreviousTextChecked]_vars

----------------------------------------------------------------------------
(* Tokens the decoder passes through *)

MaxPassPieces == 3

PassPieces ==
  {<<"a">>, <<"&","s","e","c","t",";">>, <<"&","s","h","y",";">>,
   <<"&","#","9","x",";">>, <<"&","#","1","2","z",";">>, <<"&","l","t",";">>}

InitPass ==
  /\ dec \in {DecodeStart(s, Len(s)) : s \in Pieces(PassPieces, MaxPassPieces)}
  /\ doc = DocStart(<<>>)
  /\ hc = HcStart
  /\ tags = <<>>
  /\ nodes = <<>>
  /\ urls = UrlsStart
  /\ trace = TraceStart
  /\ ph = PhIdle
  /\ msg = MsgIdle
  /\ lib = LibIdle

SpecPass == InitPass /\ [][NextDecode]_vars

\* the step closes a decimal reference &#digits...; with a byte that is not
\* a digit after its first digit
ClosesGarbled ==
  /\ dec.state = 1
  /\ dec.s[dec.h + 1] = ";"
  /\ dec.e + 2 < dec.h
  /\ dec.s[dec.e + 2] = "#"
  /\ g_ascii_isdigit(dec.s[dec.e + 3])
  /\ \E k \in (dec.e + 4)..dec.h : ~g_ascii_isdigit(dec.s[k])

\* the token from its & up to and including its ;
Token == Span(dec.s, dec.e, dec.h + 1)

\* C31: a named entity of the table without replacement, and a numeric
\* reference with garbage after its digits, are left in the output in full,
\* from the & up to and including the ;
PassedThroughInFull ==
  [][/\ \A i \in 1..Len(entities_defs) :
          (ClosesNamed(i) /\ ~entities_defs[i].has_rep) => Emitted = Token
     /\ ClosesGarbled => Emitted = Token]_vars

----------------------------------------------------------------------------
(* rspamd_url_is_subdomain on pairs of names *)

MaxNameLen == 4

RECURSIVE NamesOfLen(_)
\* the sequences of n bytes over a, b and the dot
NamesOfLen(n) ==
  IF n = 0 THEN {<<>>}
  ELSE {Append(s, c) : s \in NamesOfLen(n - 1), c \in {"a", "b", "."}}

\* names of non-empty labels, with at most one trailing dot
HostNames ==
  {s \in UNION {NamesOfLen(n) : n \in 1..MaxNameLen} :
      /\ s[1] # "."
      /\ \A i \in 1..(Len(s) - 1) : ~(s[i] = "." /\ s[i + 1] = "." /\ i + 1 < Len(s))
      /\ ~(Len(s) >= 2 /\ s[Len(s)] = "." /\ s[Len(s) - 1] = ".")}

InitSub ==
  /\ ph \in {[t1 |-> a, t2 |-> b, called |-> FALSE, ret |-> FALSE] :
                a \in HostNames, b \in HostNames}
  /\ doc = DocStart(<<>>)
  /\ hc = HcStart
  /\ tags = <<>>
  /\ nodes = <<>>
  /\ urls = UrlsStart
  /\ trace = TraceStart
  /\ dec = DecIdle
  /\ msg = MsgIdle
  /\ lib = LibIdle

\* rspamd_url_is_subdomain (&t1, &t2)
call_url_is_subdomain ==
  /\ ~ph.called
  /\ ph' = [ph EXCEPT !.called = TRUE,
                      !.ret = rspamd_url_is_subdomain(ph.t1, ph.t2)]
  /\ UNCHANGED <<dec, doc, hc, tags, nodes, urls, msg, lib, trace>>

NextSub == call_url_is_subdomain

SpecSub == InitSub /\ [][NextSub]_vars

\* t without its trailing dot
Undotted(t) == IF t[Len(t)] = "." THEN SubSeq(t, 1, Len(t) - 1) ELSE t

\* C32: rspamd_url_is_subdomain returns TRUE exactly when, trailing dots
\* aside, one name is a proper suffix of the other that starts after a dot
\* of the longer name, every byte of the shorter name matching
SubdomainIffDotSuffix ==
  ph.called =>
     (ph.ret <=> \/ DotSuffix(Undotted(ph.t1), Undotted(ph.t2))
                 \/ DotSuffix(Undotted(ph.t2), Undotted(ph.t1)))

----------------------------------------------------------------------------
(* rspamd_html_process_color on rgb() and rgba() values *)

MaxRgbPieces == 5

RgbPieces == {<<"1", ",">>, <<"2", "5", ",">>, <<"1">>, <<")">>, <<"x">>}

RgbHeads == {<<"r","g","b","(">>, <<"r","g","b","a","(">>, <<"R","G","B","(">>}

RgbLines == {h \o b : h \in RgbHeads, b \in Pieces(RgbPieces, MaxRgbPieces)}

InitRgb ==
  /\ ph \in {[line |-> l, called |-> FALSE, cl |-> NoColor] : l \in RgbLines}
  /\ doc = DocStart(<<>>)
  /\ hc = HcStart
  /\ tags = <<>>
  /\ nodes = <<>>
  /\ urls = UrlsStart
  /\ trace = TraceStart
  /\ dec = DecIdle
  /\ msg = MsgIdle
  /\ lib = LibIdle

\* rspamd_html_process_color (line, len, &cl)
call_process_color ==
  /\ ~ph.called
  /\ ph' = [ph EXCEPT !.called = TRUE, !.cl = rspamd_html_process_color(ph.line)]
  /\ UNCHANGED <<dec, doc, hc, tags, nodes, urls, msg, lib, trace>>

NextRgb == call_process_color

SpecRgb == InitRgb /\ [][NextRgb]_vars

\* the decimal numbers of the lines
RgbNums == {<<"1">>, <<"2", "5">>, <<"1", "1">>}

\* head r,g,b) and head r,g,b,a)
RgbForm(h, r, g, b) == h \o r \o <<",">> \o g \o <<",">> \o b \o <<")">>

RgbaForm(h, r, g, b, a) ==
  h \o r \o <<",">> \o g \o <<",">> \o b \o <<",">> \o a \o <<")">>

\* the 32-bit value of a colour
ColorVal(cl) == (cl.alpha * 16777216) + (cl.r * 65536) + (cl.g * 256) + cl.b

RgbValue(r, g, b) ==
  (rspamd_strtoul(r).val * 65536) + (rspamd_strtoul(g).val * 256) + rspamd_strtoul(b).val

\* C33: rgb(r,g,b) and rgba(r,g,b,a) with unsigned decimal integers give a
\* valid colour of value (r << 16) + (g << 8) + b, and a line with an
\* unexpected byte inside its parentheses gives an invalid colour
RgbFormsParsed ==
  ph.called =>
     /\ \A h \in RgbHeads : \A r \in RgbNums : \A g \in RgbNums : \A b \in RgbNums :
           /\ (h[Len(h) - 1] # "a" /\ ph.line = RgbForm(h, r, g, b)) =>
                 ph.cl.valid /\ ColorVal(ph.cl) = RgbValue(r, g, b)
           /\ \A a \in RgbNums :
                 (h[Len(h) - 1] = "a" /\ ph.line = RgbaForm(h, r, g, b, a)) =>
                    ph.cl.valid /\ ColorVal(ph.cl) = RgbValue(r, g, b)
     /\ (\E i \in 1..Len(ph.line) : ph.line[i] = "x") => ~ph.cl.valid

\* the part of C33 about rgb(r,g,b) alone
RgbThreeParsed ==
  ph.called =>
     \A h \in RgbHeads : \A r \in RgbNums : \A g \in RgbNums : \A b \in RgbNums :
        (h[Len(h) - 1] # "a" /\ ph.line = RgbForm(h, r, g, b)) => ph.cl.valid

----------------------------------------------------------------------------
(* The alpha component of valid colours *)

\* C34: every valid colour of a block, whether parsed from #hex, rgb() or a
\* name, defaulted, taken from the document background or inherited, has
\* alpha 255
ValidColorsOpaque ==
  \A t \in 1..Len(tags) :
     tags[t].extra.kind = "block" =>
        /\ tags[t].extra.bl.font_color.valid =>
              tags[t].extra.bl.font_color.alpha = 255
        /\ tags[t].extra.bl.background_color.valid =>
              tags[t].extra.bl.background_color.alpha = 255

\* the same for the font colour alone
ValidFontColorsOpaque ==
  \A t \in 1..Len(tags) :
     (tags[t].extra.kind = "block" /\ tags[t].extra.bl.font_color.valid) =>
        tags[t].extra.bl.font_color.alpha = 255

----------------------------------------------------------------------------
(* rspamd_html_process_url on spans with and without a scheme *)

MaxSpanPieces == 4

SpanPieces ==
  {<<"/">>, <<"a", ".", "b">>, <<":">>, <<" ">>, <<"x">>,
   <<"h","t","t","p",":","/","/">>}

InitSpan ==
  /\ ph \in {[span |-> s, called |-> FALSE, r |-> [ok |-> FALSE]] :
                s \in Pieces(SpanPieces, MaxSpanPieces)}
  /\ doc = DocStart(<<>>)
  /\ hc = HcStart
  /\ tags = <<>>
  /\ nodes = <<>>
  /\ urls = UrlsStart
  /\ trace = TraceStart
  /\ dec = DecIdle
  /\ msg = MsgIdle
  /\ lib = LibIdle

\* rspamd_html_process_url (pool, start, len, NULL)
call_process_url ==
  /\ ~ph.called
  /\ ph' = [ph EXCEPT !.called = TRUE, !.r = rspamd_html_process_url(ph.span)]
  /\ UNCHANGED <<dec, doc, hc, tags, nodes, urls, msg, lib, trace>>

NextSpan == call_process_url

SpecSpan == InitSpan /\ [][NextSpan]_vars

\* the span without its leading and trailing whitespace
TrimmedSpan(s) ==
  SubSeq(s, LeadSpaces(s, 1) + 1,
         Len(s) - (IF LeadSpaces(s, 1) = Len(s) THEN 0 ELSE TrailSpaces(s, Len(s))))

NoColon(s) == \A i \in 1..Len(s) : s[i] # ":"

\* what is parsed for a trimmed span: http: before a schemeless //span,
\* http:// before another schemeless span, nothing before a span with a colon
ExpectedUrlString(s) ==
  (IF ~NoColon(s) THEN <<>>
   ELSE IF Len(s) >= 2 /\ s[1] = "/" /\ s[2] = "/" THEN <<"h","t","t","p",":">>
   ELSE <<"h","t","t","p",":","/","/">>)
  \o UrlEncode(s, 1)

\* C35: a span is schemeless exactly when, trimmed, it has no colon; a URL
\* is returned when the span parses after http: (span starting with //) or
\* http:// (otherwise), and it carries the schemaless flag; a span with a
\* colon is parsed as it is and the URL does not carry the flag
SchemelessIffNoColon ==
  ph.called =>
     /\ ph.r.ok = rspamd_url_parse(ExpectedUrlString(TrimmedSpan(ph.span))).ok
     /\ ph.r.ok =>
           /\ ph.r.url.string = ExpectedUrlString(TrimmedSpan(ph.span))
           /\ "SCHEMALESS" \in ph.r.url.flags <=> NoColon(TrimmedSpan(ph.span))

\* a URL was returned for a schemeless span that starts with //
SchemelessSlashesParsed ==
  /\ ph.called
  /\ ph.r.ok
  /\ Len(TrimmedSpan(ph.span)) > 2
  /\ SubSeq(TrimmedSpan(ph.span), 1, 2) = <<"/", "/">>
  /\ "SCHEMALESS" \in ph.r.url.flags

----------------------------------------------------------------------------
(* The end of a comment *)

MaxCommentPieces == 5

CommentPieces == {<<"-">>, <<">">>, <<"x">>, <<" ">>}

CommentOpener == <<"<", "!", "-", "-">>

CommentDocs == {CommentOpener \o b : b \in Pieces(CommentPieces, MaxCommentPieces)}

InitComment == InitDocs(CommentDocs \cup {CoverDoc})

SpecComment == InitComment /\ [][Next]_vars

\* inside the comment of a document of CommentDocs the parser reads the >
\* of a --> that lies after the opener
CommentCloserRead ==
  /\ doc.in \in CommentDocs
  /\ Running("comment_content")
  /\ Byte = ">"
  /\ doc.p >= Len(CommentOpener) + 2
  /\ doc.in[doc.p] = "-"
  /\ doc.in[doc.p - 1] = "-"

\* C36: a comment ends at the first --> after its opener: at the > of it
\* the parser leaves comment_content for tag_end, however many - bytes
\* precede the -->
CommentEndsAtFirstCloser == [][CommentCloserRead => doc'.state = "tag_end"]_vars

----------------------------------------------------------------------------
(* Reads inside the input buffer *)

MaxTailPieces == 4

TailPieces == {<<"x">>, <<"=">>, <<"/">>, <<"\"">>, <<" ">>, <<">">>}

\* <a followed by attribute bytes, the input ending anywhere
TailDocs == {<<"<", "a", " ">> \o b : b \in Pieces(TailPieces, MaxTailPieces)}

InitTail == InitDocs(TailDocs \cup {CoverDoc})

SpecTail == InitTail /\ [][Next]_vars

\* C37: no step of the document parser or of the tag-content parser reads
\* an input byte at or after the end of the buffer, the look-ahead of the
\* "/>" tests included
NoReadPastEnd == ~trace.oob

----------------------------------------------------------------------------
(* Two threads in rspamd_html_library_init *)

Threads == {"T1", "T2"}

\* the tables that each latch stands for, in the order of their qsort calls
LatchTables ==
  [tags_sorted |-> <<"tag_defs", "tag_defs_num">>,
   entities_sorted |-> <<"entities_defs", "entities_defs_num">>]

\* the position of a thread at the test of a latch
AtTest(latch) == [at |-> "test", latch |-> latch, k |-> 1]

\* where a thread goes once it is done with a latch
AfterLatch(latch) ==
  IF latch = "tags_sorted" THEN AtTest("entities_sorted")
  ELSE [at |-> "parse", latch |-> latch, k |-> 1]

\* both threads enter rspamd_html_process_part_full while the latches are 0;
\* sorting: the threads inside a qsort of the table
ThreadsStart ==
  [tags_sorted |-> 0, entities_sorted |-> 0,
   sorts |-> [tb \in Tables |-> 0],
   sorting |-> [tb \in Tables |-> {}],
   raced |-> FALSE,
   pc |-> [t \in Threads |-> AtTest("tags_sorted")]]

InitThreads ==
  /\ dec = DecIdle
  /\ doc = DocStart(<<>>)
  /\ hc = HcStart
  /\ tags = <<>>
  /\ nodes = <<>>
  /\ urls = UrlsStart
  /\ trace = TraceStart
  /\ ph = PhIdle
  /\ msg = MsgIdle
  /\ lib = ThreadsStart

\* if (!tags_sorted) / if (!entities_sorted)
thr_test_latch ==
  /\ \E t \in Threads :
       /\ lib.pc[t].at = "test"
       /\ lib' = [lib EXCEPT !.pc[t] =
                     IF lib[@.latch] = 0
                     THEN [@ EXCEPT !.at = "qsort"]
                     ELSE AfterLatch(@.latch)]
  /\ UNCHANGED <<dec, doc, hc, tags, nodes, urls, ph, msg, trace>>

\* qsort (table, ...) is entered
thr_qsort_begin ==
  /\ \E t \in Threads :
       /\ lib.pc[t].at = "qsort"
       /\ LET tb == LatchTables[lib.pc[t].latch][lib.pc[t].k]
          IN  lib' = [lib EXCEPT !.sorts[tb] = @ + 1,
                                 !.sorting[tb] = @ \cup {t},
                                 !.pc[t].at = "sorting"]
  /\ UNCHANGED <<dec, doc, hc, tags, nodes, urls, ph, msg, trace>>

\* qsort (table, ...) returns; the second table of the latch follows the first
thr_qsort_end ==
  /\ \E t \in Threads :
       /\ lib.pc[t].at = "sorting"
       /\ LET tb == LatchTables[lib.pc[t].latch][lib.pc[t].k]
          IN  lib' = [lib EXCEPT !.sorting[tb] = @ \ {t},
                                 !.pc[t] = IF @.k = 1
                                           THEN [@ EXCEPT !.at = "qsort", !.k = 2]
                                           ELSE [@ EXCEPT !.at = "set"]]
  /\ UNCHANGED <<dec, doc, hc, tags, nodes, urls, ph, msg, trace>>

\* tags_sorted = 1 / entities_sorted = 1
thr_set_latch ==
  /\ \E t \in Threads :
       /\ lib.pc[t].at = "set"
       /\ lib' = [lib EXCEPT ![lib.pc[t].latch] = 1,
                             !.pc[t] = AfterLatch(@.latch)]
  /\ UNCHANGED <<dec, doc, hc, tags, nodes, urls, ph, msg, trace>>

\* the parser of the thread searches a table with bsearch
thr_bsearch ==
  /\ \E t \in Threads : \E tb \in Tables :
       /\ lib.pc[t].at = "parse"
       /\ lib' = [lib EXCEPT !.raced = @ \/ lib.sorting[tb] # {} \/ lib.sorts[tb] = 0,
                             !.pc[t].at = "done"]
  /\ UNCHANGED <<dec, doc, hc, tags, nodes, urls, ph, msg, trace>>

NextThreads ==
  \/ thr_test_latch
  \/ thr_qsort_begin
  \/ thr_qsort_end
  \/ thr_set_latch
  \/ thr_bsearch

SpecThreads == InitThreads /\ [][NextThreads]_vars

\* C38: with two threads in rspamd_html_process_part_full while the tables
\* are not initialised, each table is sorted once and no thread searches a
\* table that another thread is sorting or that is not sorted yet
SortedOnceByTwoThreads ==
  /\ \A tb \in Tables : lib.sorts[tb] <= 1
  /\ ~lib.raced

\* the part about a search during a sort alone
NoSearchDuringSort == ~lib.raced

----------------------------------------------------------------------------
(* Periodic updates of a map shared by worker processes (libutil/map.c) *)

\* the worker processes; they share the int that map->locked points to, and
\* each has its own struct rspamd_map and its own periodics
Procs == {"W1", "W2"}

\* no struct map_periodic_cbdata is alive in the process
NoPeriodic ==
  [st |-> "none", locked |-> FALSE, errored |-> FALSE, refs |-> 0, resets |-> 0]

\* rspamd_map_watch has scheduled the initial check of the map in each
\* process.  holders, twice and broken record the history for the properties:
\* the processes whose periodic took the flag and has not reset it yet,
\* whether a periodic reset the flag a second time, and whether the flag was
\* reset while the periodic of another process held it
MapStart ==
  [locked |-> 0, holders |-> {}, twice |-> FALSE, broken |-> FALSE,
   w |-> [p \in Procs |-> [scheduled_check |-> TRUE, timers |-> 1,
                           cur |-> NoPeriodic]]]

InitMap ==
  /\ dec = DecIdle
  /\ doc = DocStart(<<>>)
  /\ hc = HcStart
  /\ tags = <<>>
  /\ nodes = <<>>
  /\ urls = UrlsStart
  /\ trace = TraceStart
  /\ ph = PhIdle
  /\ msg = MsgIdle
  /\ lib = MapStart

\* rspamd_map_schedule_periodic (map, ...) in process p: a new periodic with
\* its timer, unless a check is already scheduled
rspamd_map_schedule_periodic(l, p) ==
  IF l.w[p].scheduled_check THEN l
  ELSE [l EXCEPT !.w[p].scheduled_check = TRUE, !.w[p].timers = @ + 1]

\* g_atomic_int_set (map->locked, 0) by the periodic of process p
UnlockMap(l, p) ==
  [l EXCEPT !.locked = 0,
            !.holders = @ \ {p},
            !.twice = @ \/ l.w[p].cur.resets >= 1,
            !.broken = @ \/ (l.holders \ {p}) # {},
            !.w[p].cur.resets = @ + 1]

\* the outcomes of the check of the backend of the map
BackendOutcomes ==
  {"next", "file_error", "no_connect", "write_failed", "no_resolver",
   "http_sent", "dns_sent"}

\* rspamd_map_periodic_callback called by the timer of a periodic
map_timer(p) ==
  /\ lib.w[p].timers > 0
  /\ lib.w[p].cur.st = "none"
  /\ LET fired == [lib EXCEPT !.w[p].scheduled_check = FALSE, !.w[p].timers = @ - 1]
     IN  lib' = IF lib.locked # 0
                THEN rspamd_map_schedule_periodic(fired, p)
                ELSE [fired EXCEPT
                        !.locked = 1,
                        !.holders = @ \cup {p},
                        !.w[p].cur = [st |-> "check", locked |-> TRUE,
                                      errored |-> FALSE, refs |-> 1, resets |-> 0]]
  /\ UNCHANGED <<dec, doc, hc, tags, nodes, urls, ph, msg, trace>>

\* the check of the backend: the file and static callbacks, and
\* rspamd_map_common_http_callback with write_http_request
map_backend(p) ==
  /\ lib.w[p].cur.st = "check"
  /\ \E o \in BackendOutcomes :
       lib' = [lib EXCEPT !.w[p].cur =
                 CASE o = "next"         -> [@ EXCEPT !.st = "dtor", !.refs = 0]
                   [] o = "file_error"   -> [@ EXCEPT !.st = "errored", !.errored = TRUE]
                   [] o = "no_connect"   -> [@ EXCEPT !.st = "orphan"]
                   [] o = "write_failed" -> [@ EXCEPT !.st = "orphan", !.errored = TRUE]
                   [] o = "no_resolver"  -> [@ EXCEPT !.st = "orphan", !.errored = TRUE]
                   [] o = "http_sent"    -> [@ EXCEPT !.st = "wait_http", !.refs = 2]
                   [] o = "dns_sent"     -> [@ EXCEPT !.st = "wait_dns", !.refs = 2]]
  /\ UNCHANGED <<dec, doc, hc, tags, nodes, urls, ph, msg, trace>>

\* rspamd_map_dns_callback for the last reply
map_dns_reply(p) ==
  /\ lib.w[p].cur.st = "wait_dns"
  /\ \E r \in {"unresolved", "connected", "no_connect", "write_failed"} :
       lib' = [lib EXCEPT !.w[p].cur =
                 CASE r = "unresolved"   -> [@ EXCEPT !.st = "errored", !.errored = TRUE]
                   [] r = "connected"    -> [@ EXCEPT !.st = "wait_http"]
                   [] r = "no_connect"   -> [@ EXCEPT !.st = "orphan", !.refs = 1]
                   [] r = "write_failed" -> [@ EXCEPT !.st = "orphan", !.refs = 1,
                                                      !.errored = TRUE]]
  /\ UNCHANGED <<dec, doc, hc, tags, nodes, urls, ph, msg, trace>>

\* http_map_finish and http_map_error
map_http_reply(p) ==
  /\ lib.w[p].cur.st = "wait_http"
  /\ \E r \in {"finished", "http_error", "connection_error"} :
       lib' = [lib EXCEPT !.w[p].cur =
                 IF r = "finished"
                 THEN [@ EXCEPT !.st = "dtor", !.refs = 0]
                 ELSE [@ EXCEPT !.st = "errored", !.errored = TRUE]]
  /\ UNCHANGED <<dec, doc, hc, tags, nodes, urls, ph, msg, trace>>

\* rspamd_map_periodic_callback called with cbd->errored set: the next check
\* is scheduled, the flag is reset, the references are released
map_errored(p) ==
  /\ lib.w[p].cur.st = "errored"
  /\ LET Released(l) == [l EXCEPT !.w[p].cur.st = "dtor", !.w[p].cur.refs = 0]
         Unlocked(l) == Released(IF l.w[p].cur.locked THEN UnlockMap(l, p) ELSE l)
     IN  lib' = Unlocked(rspamd_map_schedule_periodic(lib, p))
  /\ UNCHANGED <<dec, doc, hc, tags, nodes, urls, ph, msg, trace>>

\* rspamd_map_periodic_dtor
map_dtor(p) ==
  /\ lib.w[p].cur.st = "dtor"
  /\ LET Freed(l) == [l EXCEPT !.w[p].cur = NoPeriodic]
     IN  lib' = Freed(IF lib.w[p].cur.locked
                      THEN UnlockMap(rspamd_map_schedule_periodic(lib, p), p)
                      ELSE lib)
  /\ UNCHANGED <<dec, doc, hc, tags, nodes, urls, ph, msg, trace>>

ProcNext(p) ==
  \/ map_timer(p)
  \/ map_backend(p)
  \/ map_dns_reply(p)
  \/ map_http_reply(p)
  \/ map_errored(p)
  \/ map_dtor(p)

NextMap == \E p \in Procs : ProcNext(p)

SpecMap == InitMap /\ [][NextMap]_vars

\* every process goes on as long as it has a step to take
SpecMapLive == SpecMap /\ \A p \in Procs : WF_vars(ProcNext(p))

\* C39: the shared lock flag is held by at most one periodic at a time, a
\* periodic that took it resets it once, and no process resets it while the
\* periodic of another process holds it
LockHeldByOne ==
  /\ Cardinality(lib.holders) <= 1
  /\ ~lib.twice
  /\ ~lib.broken

\* the part of C39 about a single reset per periodic
LockResetOnce == ~lib.twice

\* C40: every periodic whose timer fired and that took the lock completes:
\* its lock is released and the next check of the map is scheduled; and at
\* most one check is scheduled per map
PeriodicCompletes ==
  /\ \A p \in Procs :
        (lib.w[p].cur.st = "check") ~>
           (lib.w[p].cur.st = "none" /\ lib.w[p].timers = 1 /\ p \notin lib.holders)
  /\ [](\A p \in Procs : lib.w[p].timers <= 1)
====
